---------------------------- MODULE Spec2Model ----------------------------
(***************************************************************************)
(* Model of the client-connector-lib core: the command ingress queue of    *)
(* cc_lib/client/_client.py, the hub synchronisation protocol of the same  *)
(* file, and the MQTT transport of cc_lib/connector/protocol/mqtt.         *)
(*                                                                         *)
(* Strings are sequences of one-character strings, so that split, replace  *)
(* and format are computed as Python computes them.                        *)
(***************************************************************************)
EXTENDS Integers, Sequences, FiniteSets, TLC

VARIABLES
    \* ---- command ingress (Client.__handleCommand / Client.receiveCommand)
    cmd_queue,      \* Client.__cmd_queue: the items of the queue.Queue, oldest first
    loop_exc,       \* exception that left __handleCommand on the loop thread ("none" if it returned)
    recv_exc,       \* outcome of the last receiveCommand call of each receiver
    arrived,        \* history: commands __handleCommand built from well-formed messages
    enqueued,       \* history: commands put_nowait accepted
    dropped,        \* history: commands put_nowait refused (queue.Full)
    delivered,      \* history: <<receiver, command>> in the order Queue.get returned them
    handled,        \* history: number of __handleCommand calls
    \* ---- hub reconciliation (Client.__initHub / __syncHub / __addDevice / __deleteDevice)
    hub_init,       \* Client.__hub_init
    hub_id,         \* cc_conf.hub.id ("" when absent)
    hub_sync_lock,  \* Client.__hub_sync_lock: the thread holding it, or "free"
    hub_sync_event, \* Client.__hub_sync_event: TRUE when set
    workers,        \* Client.__workers: list of registered worker threads
    hpc,            \* position of every hub thread in its method
    op_kind,        \* "add" or "delete": the method a device thread runs
    op_worker,      \* the worker argument of __addDevice / __deleteDevice
    join_idx,       \* index of the list iterator of "for worker in self.__workers"
    hexc,           \* exception a hub thread's method raised ("none": returned normally)
    inits,          \* history: number of initHub calls
    started_during, \* history: the syncHub runs in progress when a device call started
    before_sync,    \* history: the asynchronous device calls started before a syncHub call
    at_get,         \* history: whether the workers list was "empty" or "pending" when syncHub issued its GET
    \* ---- session (Client.connect / disconnect / __connect / __reconnect / __onConnect / __onDisconnect)
    connected_flag, \* Client.__connected_flag
    reconnect_flag, \* Client.__reconnect_flag
    connect_lock,   \* Client.__connect_lock: the thread whose __connect holds it, or "free"
    comm,           \* TRUE once Client.__comm holds an mqtt.Client
    usr_disconn,    \* mqtt.Client.__usr_disconn
    sock,           \* TRUE when the paho client's _sock is not None
    tpc,            \* position of every user thread and reconnect thread
    ucall,          \* the arguments of the latest connect() call of each user thread, and the
                    \* reconnect flag a call that runs __connect itself found
    retry,          \* the local retry of each __reconnect thread
    cw_done,        \* the connect EventWorker of a thread has been signaled
    cw_exc,         \* exception stored in the connect EventWorker of a thread
    lpc,            \* position of every transport loop thread in mqtt.Client.__loop
    lrc,            \* the local rc of each loop thread
    lowner,         \* the thread whose connect EventWorker a loop thread completes
    calls,          \* history: number of connect() calls
    disc_since,     \* history: disconnect() was called and connect() has not been called since
    late_attempt,   \* history: reconnect threads that left their sleep while disc_since, and the loop threads they then started
    late_connect,   \* history: __onConnect ran on such a loop thread while disc_since
    last_disc,      \* history: the latest __onDisconnect: its code, the reconnect flag it read, what it started
    still_conn,     \* history: the session was connected at the latest connect() of a user thread and has been since
    \* ---- transport pending map (mqtt.Client.__events and its callers)
    events,         \* mqtt.Client.__events: <<mid, worker>> pairs in insertion order
    next_mid,       \* the message id the paho client hands out next
    inflight,       \* message ids of requests whose ack has not been processed yet
    opc,            \* position of every operation thread
    op,             \* the operation of each operation thread: kind, qos, message id
    w_sig,          \* how often the EventWorker of an operation thread has been signaled
    w_exc,          \* exception stored in the EventWorker of an operation thread
    clean_it,       \* the dict iterator of __cleanEvents of each loop thread: size at creation, position
    acked,          \* history: operation threads whose ack callback has run
    at_clean,       \* history: operation threads whose worker was in __events when __cleanEvents began
    \* ---- helper functions (Client.__prefixDeviceID / __parseDeviceID / __hashDevices, _util.calcDuration)
    util_in,        \* the function applied and its arguments
    util_out,       \* what the call gave: its return value or the exception it raised
    \* ---- a Future and its worker (asynchron/future.py)
    f_worker,       \* the worker of the future: done, exception, result
    f_pc,           \* position of every caller of Future.result, and whether the worker was done when its call began
    f_calls,        \* history: the result() calls that ended: whether done was read true, and the outcome
    \* ---- instantiation (Singleton.__call__ for Client)
    instances,      \* Singleton._instances[Client]: the instance stored, 0 when the key is absent
    ipc,            \* position of every instantiating thread in Singleton.__call__
    inew,           \* the instance a thread constructed and has not stored yet
    constructed,    \* history: number of runs of Client.__init__
    returned,       \* history: the instances Singleton.__call__ returned
    \* ---- the platform's registry as the HTTP answers show it, and the Device object
    init_req,       \* history: the request of the latest __initHub and its answer
    cleared_id,     \* history: the hub id a 404 made the client drop ("" once a new id is installed)
    sent_cleared,   \* history: a hub request was issued for that id after the 404
    remote_hash,    \* the hash the platform holds for the hub
    sync_devs,      \* the devices argument of each __syncHub call
    sync_hash,      \* the local devices_hash of each __syncHub call
    sync_put,       \* history: the __syncHub calls that issued the PUT
    sync_ans,       \* history: the latest answer to each __syncHub call: request, status, whether it showed a hash
    dev_remote,     \* Device.__remote_id of the device the device threads work on ("" when unset)
    reg_id,         \* the id the platform holds for that device ("" when it holds none)
    next_rid,       \* number of ids the platform has assigned to the device
    dev_ans,        \* history of each device call: the id the platform gave the device in its answers (0: none),
                    \* the status of the probe, whether a token or HTTP failure mode occurred
    dev_calls,      \* history: number of __addDevice / __deleteDevice / __updateDevice calls
    \* ---- the reconnect loops (Client.__reconnect)
    backoff,        \* history of each __reconnect thread: the retry it was started with, the connect
                    \* workers it has started, the retry_num and the duration of its latest sleep
    \* ---- the device pool (connector/device_mgr.py)
    device_pool,    \* DeviceManager.__device_pool: [id, obj] entries in insertion order
    dm_lock,        \* DeviceManager.__lock: the thread holding it, or "free"
    mpc,            \* position of every thread calling the DeviceManager
    mop,            \* the method each of them runs and its argument
    mout,           \* what its latest call gave: exception, value, and for devices the pool when the
                    \* view was taken
    mcalls,         \* history: number of DeviceManager calls
    \* ---- Client.disconnect in progress
    dpc             \* position of the thread calling disconnect(): "idle", or "set" between the
                    \* socket check of mqtt.Client.disconnect and its assignment

qvars == <<cmd_queue, loop_exc, recv_exc, arrived, enqueued, dropped, delivered, handled>>

hvars == <<hub_init, hub_id, hub_sync_lock, hub_sync_event, workers, hpc, op_kind, op_worker,
           join_idx, hexc, inits, started_during, before_sync, at_get>>

svars == <<connected_flag, reconnect_flag, connect_lock, comm, usr_disconn, sock, tpc, ucall, retry,
           cw_done, cw_exc, lpc, lrc, lowner, calls, disc_since, late_attempt, late_connect,
           last_disc, still_conn>>

evars == <<events, next_mid, inflight, opc, op, w_sig, w_exc, clean_it, acked, at_clean>>

uvars == <<util_in, util_out>>

fvars == <<f_worker, f_pc, f_calls>>

ivars == <<instances, ipc, inew, constructed, returned>>

pvars == <<init_req, cleared_id, sent_cleared, remote_hash, sync_devs, sync_hash, sync_put, sync_ans,
           dev_remote, reg_id, next_rid, dev_ans, dev_calls>>

mvars == <<device_pool, dm_lock, mpc, mop, mout, mcalls>>

vars == <<qvars, hvars, svars, evars, uvars, fvars, ivars, pvars, backoff, mvars, dpc>>

-----------------------------------------------------------------------------
(* Bounds *)

\* inbound MQTT messages handled in one behaviour
MaxCmds == 3

\* initHub calls in one behaviour
MaxInits == 2

\* connect() calls in one behaviour
MaxConnects == 2

\* largest retry a __reconnect thread reaches
MaxRetry == 1

\* longest local device id
MaxIdLen == 3

\* longest device list handed to __hashDevices
MaxDevices == 3

\* largest retry_num handed to calcDuration
MaxAttempts == 5

\* passes of the reconnect loop in one behaviour
MaxPasses == 1030

\* result() calls on the future in one behaviour
MaxResultCalls == 4

\* instantiations of Client in one behaviour
MaxInstantiations == 4

\* calls of __addDevice / __deleteDevice / __updateDevice in one behaviour
MaxDeviceCalls == 3

\* number of DeviceManager calls
MaxMgrCalls == 4

-----------------------------------------------------------------------------
(* Strings *)

\* cc_conf.device.id_prefix
id_prefix == <<"P">>

\* "{}-{}".format(cc_conf.device.id_prefix, device_id)
prefixDeviceID(device_id) == id_prefix \o <<"-">> \o device_id

\* str.replace(old, ""): every non-overlapping occurrence of old, leftmost first
RECURSIVE StrRemove(_, _)
StrRemove(s, old) ==
    IF Len(s) < Len(old) THEN s
    ELSE IF SubSeq(s, 1, Len(old)) = old
         THEN StrRemove(SubSeq(s, Len(old) + 1, Len(s)), old)
         ELSE <<Head(s)>> \o StrRemove(Tail(s), old)

\* device_id.replace("{}-".format(cc_conf.device.id_prefix), "")
parseDeviceID(device_id) == StrRemove(device_id, id_prefix \o <<"-">>)

\* str.split("/"): the list of segments between the separators
RECURSIVE StrSplit(_)
StrSplit(s) ==
    IF s = <<>> THEN << <<>> >>
    ELSE IF Head(s) = "/" THEN << <<>> >> \o StrSplit(Tail(s))
    ELSE LET r == StrSplit(Tail(s))
         IN  << <<Head(s)>> \o Head(r) >> \o Tail(r)


\* "/".join(segments): how the broker-side topic string is built
RECURSIVE StrJoin(_)
StrJoin(segs) ==
    IF Len(segs) = 0 THEN <<>>
    ELSE IF Len(segs) = 1 THEN Head(segs)
    ELSE Head(segs) \o <<"/">> \o StrJoin(Tail(segs))

-----------------------------------------------------------------------------
(* Command ingress: inputs *)

Receivers == {"r1", "r2"}

DeviceIds == {<<"a">>, <<"b">>}

CorrIds == {"c1", "c2"}

\* topics the broker may deliver: one to four segments
InboundTopics ==
    {StrJoin(<<<<"c">>>>)}
    \cup {StrJoin(<<<<"c">>, prefixDeviceID(d)>>) : d \in DeviceIds}
    \cup {StrJoin(<<<<"c">>, prefixDeviceID(d), <<"s">>>>) : d \in DeviceIds}
    \cup {StrJoin(<<<<"c">>, prefixDeviceID(d), <<"s">>, <<"x">>>>) : d \in DeviceIds}

\* what json.loads makes of the payload bytes:
\*   undecodable        not JSON
\*   nonobject          JSON, but a list, string, number or null
\*   no_payload         an object without the key "payload"
\*   payload_nonobject  an object whose "payload" is not an object
\*   no_corr_id         an object with "payload" but without "correlation_id"
\*   ok                 the envelope of section 6
JsonKinds == {"undecodable", "nonobject", "no_payload", "payload_nonobject", "no_corr_id", "ok"}

InboundEnvelopes == [json : JsonKinds, corr : CorrIds]

\* exceptions the except clauses of __handleCommand catch
HandleCommandCaught == {"JSONDecodeError", "KeyError", "AttributeError", "Full"}

-----------------------------------------------------------------------------
(* Command ingress: queue.Queue *)

\* queue.Queue(): maxsize 0, which the standard library reads as "no limit"
cmd_queue_maxsize == 0

\* Queue.put_nowait raises queue.Full only when 0 < maxsize <= qsize
QueueFull(q) == cmd_queue_maxsize > 0 /\ Len(q) >= cmd_queue_maxsize

\* a get that hands out the newest item instead
QueueGetItemNewest(q) == q[Len(q)]

\* Queue.get hands out the oldest item ...
QueueGetItem(q) == Head(q)

\* ... and removes it
QueueGetRest(q) == Tail(q)

-----------------------------------------------------------------------------
(* Command ingress: Client.__handleCommand *)

\* the CommandEnvelope built from a message (device id parsed from uri[1], service uri[2])
CommandOf(envelope, uri) ==
    LET segs == StrSplit(uri)
    IN  [device |-> parseDeviceID(segs[2]), service |-> segs[3], corr |-> envelope.corr]

\* the first exception raised while the arguments of put_nowait are evaluated,
\* in evaluation order: json.loads, uri[1], uri[2], envelope["payload"],
\* .setdefault, envelope["correlation_id"]; "put" when the command is built
HandleCommandEval(envelope, uri) ==
    LET segs == StrSplit(uri)
    IN  IF envelope.json = "undecodable" THEN "JSONDecodeError"
        ELSE IF Len(segs) < 3 THEN "IndexError"
        ELSE IF envelope.json = "nonobject" THEN "TypeError"
        ELSE IF envelope.json = "no_payload" THEN "KeyError"
        ELSE IF envelope.json = "payload_nonobject" THEN "AttributeError"
        ELSE IF envelope.json = "no_corr_id" THEN "KeyError"
        ELSE "put"

\* the exception that leaves __handleCommand ("none": it returns normally)
HandleCommandRaises(envelope, uri, q) ==
    LET ev == HandleCommandEval(envelope, uri)
        ex == IF ev = "put" THEN (IF QueueFull(q) THEN "Full" ELSE "none") ELSE ev
    IN  IF ex \in HandleCommandCaught THEN "none" ELSE ex

handleCommand(envelope, uri) ==
    /\ handled < MaxCmds
    /\ loop_exc = "none"
    /\ handled' = handled + 1
    /\ loop_exc' = HandleCommandRaises(envelope, uri, cmd_queue)
    /\ IF HandleCommandEval(envelope, uri) = "put"
       THEN LET cmd == CommandOf(envelope, uri)
            IN  /\ arrived' = Append(arrived, cmd)
                /\ IF QueueFull(cmd_queue)
                   THEN /\ dropped' = Append(dropped, cmd)
                        /\ UNCHANGED <<cmd_queue, enqueued>>
                   ELSE /\ cmd_queue' = Append(cmd_queue, cmd)
                        /\ enqueued' = Append(enqueued, cmd)
                        /\ UNCHANGED dropped
       ELSE UNCHANGED <<cmd_queue, arrived, enqueued, dropped>>
    /\ UNCHANGED <<recv_exc, delivered>>
    /\ UNCHANGED <<hvars, svars, evars, uvars, fvars, ivars, pvars, backoff, mvars, dpc>>

-----------------------------------------------------------------------------
(* Command ingress: Client.receiveCommand *)

\* Queue.get(block, timeout) on a non-empty queue: one atomic pop under the queue's mutex
receiveCommand(r) ==
    /\ cmd_queue # <<>>
    /\ delivered' = Append(delivered, <<r, QueueGetItem(cmd_queue)>>)
    /\ cmd_queue' = QueueGetRest(cmd_queue)
    /\ recv_exc' = [recv_exc EXCEPT ![r] = "returned"]
    /\ UNCHANGED <<loop_exc, arrived, enqueued, dropped, handled>>
    /\ UNCHANGED <<hvars, svars, evars, uvars, fvars, ivars, pvars, backoff, mvars, dpc>>

\* Queue.get on an empty queue: queue.Empty at once (block=False) or after the
\* timeout, mapped to CommandQueueEmptyError; block=True without timeout waits
receiveCommandEmpty(r, block, timeout) ==
    /\ cmd_queue = <<>>
    /\ (~block \/ timeout)
    /\ recv_exc' = [recv_exc EXCEPT ![r] = "CommandQueueEmptyError"]
    /\ UNCHANGED <<cmd_queue, loop_exc, arrived, enqueued, dropped, delivered, handled>>
    /\ UNCHANGED <<hvars, svars, evars, uvars, fvars, ivars, pvars, backoff, mvars, dpc>>

-----------------------------------------------------------------------------
(* Command ingress: initial state and next-state relation *)

InitQueue ==
    /\ cmd_queue = <<>>
    /\ loop_exc = "none"
    /\ recv_exc = [r \in Receivers |-> "none"]
    /\ arrived = <<>>
    /\ enqueued = <<>>
    /\ dropped = <<>>
    /\ delivered = <<>>
    /\ handled = 0

NextQueue ==
    \/ \E e \in InboundEnvelopes, u \in InboundTopics : handleCommand(e, u)
    \/ \E r \in Receivers : receiveCommand(r)
    \/ \E r \in Receivers, b \in BOOLEAN, t \in BOOLEAN : receiveCommandEmpty(r, b, t)

-----------------------------------------------------------------------------
(* Helper functions: inputs *)

\* all strings over chars of length at most n
StringsUpTo(chars, n) == UNION {[1..k -> chars] : k \in 0..n}

\* characters of local device ids: those of the prefix text and one other
IdChars == {"P", "-", "a"}

\* local device ids handed to __prefixDeviceID
DeviceIdInputs == {[fn |-> "deviceID", device_id |-> d] : d \in StringsUpTo(IdChars, MaxIdLen)}

\* the devices handed to __hashDevices: their id and name
Devices == {[id |-> i, name |-> n] : i \in {<<"a">>, <<"a", "b">>}, n \in {<<>>, <<"b">>}}

\* all lists over elems of length at most n
ListsUpTo(elems, n) == UNION {[1..k -> elems] : k \in 0..n}

\* "{}{}".format(device.id, device.name), with only the id formatted
formatIdOnly(device) == device.id

\* "{}{}".format(device.id, device.name)
formatIdName(device) == device.id \o device.name

\* the strings __hashDevices digests
DigestInputs == {formatIdName(d) : d \in Devices}

\* the ascending order of the hexdigests of the digested strings: SHA-1 is a
\* fixed injection, the position of each digest among the others is any
DigestOrders == {r \in [DigestInputs -> 1..Cardinality(DigestInputs)] :
                    \A x, y \in DigestInputs : x # y => r[x] # r[y]}

\* hashlib.sha1(x.encode()).hexdigest(): injective, so the digest names its input
sha1(x) == [sha1 |-> x]

\* __hashDevices without hashes.sort()
hashDevicesUnsorted(devices, order) ==
    LET hashes == [i \in 1..Len(devices) |-> sha1(formatIdName(devices[i]))]
    IN  sha1(hashes)

\* __hashDevices: hexdigests are of one length, so "".join(hashes) is the list
hashDevices(devices, order) ==
    LET hashes == [i \in 1..Len(devices) |-> sha1(formatIdName(devices[i]))]
        sorted == SortSeq(hashes, LAMBDA x, y : order[x.sha1] < order[y.sha1])
    IN  sha1(sorted)

\* device lists handed to __hashDevices
HashInputs == {[fn |-> "hashDevices", devices |-> ds, order |-> r] :
                  ds \in ListsUpTo(Devices, MaxDevices), r \in DigestOrders}

\* base ** e for natural numbers
RECURSIVE Pow(_, _)
Pow(base, e) == IF e = 0 THEN 1 ELSE base * Pow(base, e - 1)

\* every number from here on stands for "larger than every max_duration":
\* exact values are kept below it
Huge == Pow(2, 30)

\* x * y, or Huge when the product is Huge or more
SatMul(x, y) == IF x >= Huge \/ y >= Huge \/ (y > 0 /\ x > Huge \div y) THEN Huge ELSE x * y

\* base ** e for base >= 1, or Huge when the power is Huge or more (as it is
\* for every base >= 2 with e > 30)
RECURSIVE SatPow(_, _)
SatPow(base, e) ==
    IF e = 0 \/ base = 1 THEN 1
    ELSE IF e > 30 THEN Huge
    ELSE SatMul(base, SatPow(base, e - 1))

\* the largest e with 2 ** e <= v
RECURSIVE FloorLog2(_)
FloorLog2(v) == IF v < 2 THEN 0 ELSE 1 + FloorLog2(v \div 2)

\* sys.float_info.max_exp: a float holds only values below 2.0 ** 1024
DBL_MAX_EXP == 1024

\* the float a_1 * r ** e is 2.0 ** DBL_MAX_EXP or more, for a float r that
\* is a power of two: r ** e raises OverflowError, or the product is inf
FloatRangeExceeded(a_1, r, e) ==
    /\ r[3] = "float"
    /\ r[2] = 1
    /\ Pow(2, FloorLog2(r[1])) = r[1]
    /\ LET bits == FloorLog2(r[1]) * e
       IN  \/ bits >= DBL_MAX_EXP
           \/ /\ DBL_MAX_EXP - bits <= 30
              /\ a_1 >= Pow(2, DBL_MAX_EXP - bits)

\* math.ceil of the fraction num / den
Ceil(num, den) == (num + den - 1) \div den

\* int(log10(v)) + 1 for an integer v >= 1: the number of its decimal digits
RECURSIVE Magnitude(_)
Magnitude(v) == IF v < 10 THEN 1 ELSE 1 + Magnitude(v \div 10)

\* calcNthTerm(a_1, r, n) = a_1 * r ** (n - 1) for the factor r = r[1] / r[2]
\* of type r[3]: the fraction num / den, or the float overflow
calcNthTerm(a_1, r, n) ==
    IF FloatRangeExceeded(a_1, r, n - 1)
    THEN [overflow |-> TRUE]
    ELSE [overflow |-> FALSE, num |-> SatMul(a_1, SatPow(r[1], n - 1)), den |-> SatPow(r[2], n - 1)]

\* calcDuration(min_duration, max_duration, retry_num, factor): the value
\* returned or the exception raised.  A base value of Huge or more is above
\* max_duration, and so is its rounded duration.
calcDuration(min_duration, max_duration, retry_num, factor) ==
    LET base_value == calcNthTerm(min_duration, factor, retry_num)
    IN  IF base_value.overflow
        THEN [raised |-> "OverflowError"]
        ELSE IF base_value.num >= Huge /\ base_value.den = 1
        THEN [raised |-> "none", value |-> max_duration]
        ELSE LET magnitude == Magnitude(Ceil(base_value.num, base_value.den))
                 duration == Ceil(base_value.num, base_value.den * Pow(10, magnitude - 1))
                                 * Pow(10, magnitude - 1)
             IN  [raised |-> "none",
                  value |-> IF duration <= max_duration THEN duration ELSE max_duration]

\* reconn_delay_min, reconn_delay_max and reconn_delay_factor of the
\* configuration; a factor is <<numerator, denominator, type>>
DelayMins == {1, 5, 30}
DelayMaxs == {45, 100, 600}
DelayFactors == {<<1, 1, "int">>, <<2, 1, "int">>, <<2, 1, "float">>, <<3, 2, "float">>,
                 <<17, 10, "float">>}

\* retry numbers around the one at which 2.0 ** (n - 1) leaves the float range
LateAttempts == (DBL_MAX_EXP - 5)..(DBL_MAX_EXP + 2)

\* calls of calcDuration: every factor with the first retry numbers, the
\* power-of-two factors with the late ones
DurationInputs ==
    {[fn |-> "calcDuration", min_duration |-> a, max_duration |-> b, retry_num |-> n, factor |-> f] :
        a \in DelayMins, b \in DelayMaxs, n \in 1..MaxAttempts, f \in DelayFactors}
    \cup
    {[fn |-> "calcDuration", min_duration |-> a, max_duration |-> b, retry_num |-> n, factor |-> f] :
        a \in DelayMins, b \in DelayMaxs, n \in LateAttempts, f \in {g \in DelayFactors : g[1] = 2}}

\* no helper function is applied
InitUtil ==
    /\ util_in = [fn |-> "none"]
    /\ util_out = [done |-> FALSE]

-----------------------------------------------------------------------------
(* Hub reconciliation: threads and inputs *)

\* threads running Client.__syncHub (one syncHub call each)
SyncThreads == {"s1", "s2"}

\* threads running Client.__addDevice or Client.__deleteDevice (one call each)
DeviceThreads == {"d1", "d2"}

\* the syncHub callers of SpecHub, and the method each device thread of SpecHub runs
HubSyncCallers == {"s1"}
DeviceKinds(t) == IF t = "d1" THEN {"add"} ELSE {"delete"}

\* cc_conf.hub.id as configured: absent, or the id of an earlier run
ConfiguredHubIds == {"", "h0"}

HubThreads == SyncThreads \cup DeviceThreads

\* the device lists handed to syncHub
DeviceA == [id |-> <<"a">>, name |-> <<"b">>]
DeviceC == [id |-> <<"a", "b">>, name |-> <<"b">>]
SyncDeviceLists == {<<DeviceA>>, <<DeviceA, DeviceC>>}

\* the order of the hexdigests: one of the orders, the same in every call
HubDigestOrder == CHOOSE r \in DigestOrders : TRUE

\* the "hash" of a hub on the platform: null as created (the POST of __initHub
\* sends "hash": None), or the hash of a PUT
NullHash == [null |-> TRUE, hash |-> sha1(<<>>)]
RemoteHash(h) == [null |-> FALSE, hash |-> h]
RemoteHashes == {NullHash} \cup {RemoteHash(hashDevices(ds, HubDigestOrder)) : ds \in SyncDeviceLists}

\* where one syncHub runs against device calls: the initHub calls, the list
\* syncHub is handed, the bodies of 200 answers, the hashes the hub GET shows
HubInits == 1
HubDevices == <<DeviceA>>
HubBodies == {"object", "undecodable"}
HubHashes == {NullHash, RemoteHash(hashDevices(HubDevices, HubDigestOrder))}

\* what an HTTP exchange can come back with: a status, or SocketTimeout / URLError
HttpStatus == {200, 400, 404, 500}

\* http.SocketTimeout / http.URLError: the exchange ends without a status
NoAnswer == 0

HttpOutcomes == HttpStatus \cup {NoAnswer}

\* no __initHub has run
NoInitReq == [method |-> "none", status |-> NoAnswer, dropped |-> ""]

\* what json.loads(resp.body) and the subscripts applied to its value make of a
\* body: an object with the keys read, text that is no JSON, an object without
\* the key read, JSON that is no object (null, a list, a string, a number)
BodyKinds == {"object", "undecodable", "missing_key", "not_object"}

\* the exception json.loads(resp.body)[key] raises
BodyRaises(body) ==
    CASE body = "object" -> "none"
      [] body = "undecodable" -> "JSONDecodeError"
      [] body = "missing_key" -> "KeyError"
      [] body = "not_object" -> "TypeError"

\* positions of __syncHub between the hub_init check and the final event.set():
\* the hub is initialized and hubSyncEvent has not been set again
SyncRunningPcs == {"clear", "ifworkers", "join", "clearworkers", "get", "get_wait",
                   "put_wait", "exit_set"}

SyncRunning(s) == hpc[s] \in SyncRunningPcs

\* positions of a device call with an HTTP request issued and not yet answered
HttpInFlightPcs == {"http1", "http_post", "http_put"}

\* the domain error of the device method a thread runs
OpError(t) ==
    CASE op_kind[t] = "add" -> "DeviceAddError"
      [] op_kind[t] = "delete" -> "DeviceDeleteError"
      [] op_kind[t] = "update" -> "DeviceUpdateError"

InitHub ==
    /\ hub_init = FALSE
    /\ hub_id \in ConfiguredHubIds
    /\ hub_sync_lock = "free"
    /\ hub_sync_event = TRUE
    /\ workers = <<>>
    /\ hpc = [t \in HubThreads |-> "idle"]
    /\ op_kind = [t \in DeviceThreads |-> "add"]
    /\ op_worker = [t \in DeviceThreads |-> FALSE]
    /\ join_idx = [s \in SyncThreads |-> 1]
    /\ hexc = [t \in HubThreads \cup {"main"} |-> "none"]
    /\ inits = 0
    /\ started_during = [t \in DeviceThreads |-> {}]
    /\ before_sync = [s \in SyncThreads |-> {}]
    /\ at_get = [s \in SyncThreads |-> "none"]

\* a device call that has had no answer
NoDevAns == [id |-> 0, probe |-> NoAnswer, failed |-> FALSE]

\* no request of a __syncHub call has been answered
NoSyncAns == [req |-> "none", status |-> NoAnswer, hashed |-> FALSE]

\* the platform holds a hub created with hash null and not the device; the
\* Device object holds no remote id
InitPlatform ==
    /\ init_req = NoInitReq
    /\ cleared_id = ""
    /\ sent_cleared = FALSE
    /\ remote_hash = NullHash
    /\ sync_devs = [s \in SyncThreads |-> <<>>]
    /\ sync_hash = [s \in SyncThreads |-> sha1(<<>>)]
    /\ sync_put = [s \in SyncThreads |-> FALSE]
    /\ sync_ans = [s \in SyncThreads |-> NoSyncAns]
    /\ dev_remote = 0
    /\ reg_id = 0
    /\ next_rid = 0
    /\ dev_ans = [t \in DeviceThreads |-> NoDevAns]
    /\ dev_calls = 0

-----------------------------------------------------------------------------
(* Hub reconciliation: Client.__initHub *)

\* the exception __initHub raises for a token result, an HTTP outcome and the
\* body of the create answer ("none": it returns normally); the except clauses
\* name JSONDecodeError and KeyError, a TypeError of hub["id"] passes them
InitHubRaises(id, token, outcome, body) ==
    IF ~token THEN "HubInitializationError"
    ELSE IF outcome = NoAnswer THEN "HubInitializationError"
    ELSE IF id = ""
         THEN IF outcome # 200 THEN "HubInitializationError"
              ELSE IF BodyRaises(body) \in {"JSONDecodeError", "KeyError"}
                   THEN "HubInitializationError"
              ELSE BodyRaises(body)
         ELSE IF outcome = 200 THEN "none"
              ELSE IF outcome = 404 THEN "HubNotFoundError"
              ELSE "HubInitializationError"

\* a 404 that leaves cc_conf.hub.id as it is
KeepHubId(id, status) == id

\* cc_conf.hub.id after the answer to a request for the hub: a 404 sets it to None
DropHubId(id, status) == IF status = 404 THEN "" ELSE id

\* hub.id absent: POST, on 200 adopt the id of the answer; present: HEAD, on 404 drop the id
initHub(token, outcome, body, new_id) ==
    /\ inits < MaxInits
    /\ inits' = inits + 1
    /\ hexc' = [hexc EXCEPT !["main"] = InitHubRaises(hub_id, token, outcome, body)]
    /\ IF InitHubRaises(hub_id, token, outcome, body) = "none"
       THEN /\ hub_init' = TRUE
            /\ hub_id' = IF hub_id = "" THEN new_id ELSE hub_id
       ELSE /\ hub_init' = hub_init
            /\ hub_id' = IF hub_id # "" /\ token THEN DropHubId(hub_id, outcome) ELSE hub_id
    /\ init_req' = [method |-> IF ~token THEN "none" ELSE IF hub_id = "" THEN "POST" ELSE "HEAD",
                    status |-> IF token THEN outcome ELSE NoAnswer,
                    dropped |-> cleared_id]
    /\ cleared_id' = IF hub_id # "" /\ token /\ outcome = 404 THEN hub_id
                     ELSE IF InitHubRaises(hub_id, token, outcome, body) = "none" THEN ""
                     ELSE cleared_id
    /\ sent_cleared' = IF hub_id # "" /\ token /\ outcome = 404 THEN FALSE
                       ELSE sent_cleared \/ (token /\ hub_id # "" /\ hub_id = cleared_id)
    /\ UNCHANGED <<hub_sync_lock, hub_sync_event, workers, hpc, op_kind, op_worker, join_idx,
                   started_during, before_sync, at_get>>
    /\ UNCHANGED <<remote_hash, sync_devs, sync_hash, sync_put, sync_ans, dev_remote, reg_id, next_rid,
                   dev_ans, dev_calls>>
    /\ UNCHANGED <<qvars, svars, evars, uvars, fvars, ivars, backoff, mvars, dpc>>

-----------------------------------------------------------------------------
(* Hub reconciliation: Client.__addDevice / __deleteDevice / __updateDevice *)

\* the call is made. __addDevice and __deleteDevice begin with "if
\* self.__hub_init", which decides whether the event is waited for;
\* __updateDevice begins with its request
DeviceCall(t, kind, worker) ==
    /\ hpc[t] = "idle"
    /\ dev_calls < MaxDeviceCalls
    /\ op_kind' = [op_kind EXCEPT ![t] = kind]
    /\ op_worker' = [op_worker EXCEPT ![t] = worker /\ kind # "update"]
    /\ hpc' = [hpc EXCEPT ![t] = IF kind = "update" THEN "send1"
                                 ELSE IF hub_init THEN "wait" ELSE "reg"]
    /\ started_during' = [started_during EXCEPT ![t] = {s \in SyncThreads : SyncRunning(s)}]
    /\ dev_calls' = dev_calls + 1
    /\ dev_ans' = [dev_ans EXCEPT ![t] = NoDevAns]
    /\ UNCHANGED <<hub_init, hub_id, hub_sync_lock, hub_sync_event, workers, join_idx, hexc,
                   inits, before_sync, at_get>>
    /\ UNCHANGED <<init_req, cleared_id, sent_cleared, remote_hash, sync_devs, sync_hash, sync_put, sync_ans,
                   dev_remote, reg_id, next_rid>>
    /\ UNCHANGED <<qvars, svars, evars, uvars, fvars, ivars, backoff, mvars, dpc>>

\* self.__hub_sync_event.wait(): returns once the event is set
DeviceWait(t) ==
    /\ hpc[t] = "wait"
    /\ hub_sync_event
    /\ hpc' = [hpc EXCEPT ![t] = "reg"]
    /\ UNCHANGED <<hub_init, hub_id, hub_sync_lock, hub_sync_event, workers, op_kind, op_worker,
                   join_idx, hexc, inits, started_during, before_sync, at_get>>
    /\ UNCHANGED <<qvars, svars, evars, uvars, fvars, ivars, pvars, backoff, mvars, dpc>>

\* if worker: self.__workers.append(threading.current_thread())
DeviceRegister(t) ==
    /\ hpc[t] = "reg"
    /\ workers' = IF op_worker[t] THEN Append(workers, t) ELSE workers
    /\ hpc' = [hpc EXCEPT ![t] = "send1"]
    /\ UNCHANGED <<hub_init, hub_id, hub_sync_lock, hub_sync_event, op_kind, op_worker,
                   join_idx, hexc, inits, started_during, before_sync, at_get>>
    /\ UNCHANGED <<qvars, svars, evars, uvars, fvars, ivars, pvars, backoff, mvars, dpc>>

\* self.__auth.getAccessToken(), where NoTokenError becomes the method's
\* domain error, then req.send() of the first request: the probe GET of add,
\* the DELETE of delete, the PUT of update
DeviceSend1(t, token) ==
    /\ hpc[t] = "send1"
    /\ hpc' = [hpc EXCEPT ![t] = IF ~token THEN "done"
                                 ELSE IF op_kind[t] = "update" THEN "http_put" ELSE "http1"]
    /\ hexc' = [hexc EXCEPT ![t] = IF token THEN "none" ELSE OpError(t)]
    /\ dev_ans' = [dev_ans EXCEPT ![t].failed = ~token]
    /\ UNCHANGED <<hub_init, hub_id, hub_sync_lock, hub_sync_event, workers, op_kind, op_worker,
                   join_idx, inits, started_during, before_sync, at_get>>
    /\ UNCHANGED <<init_req, cleared_id, sent_cleared, remote_hash, sync_devs, sync_hash, sync_put,
                   sync_ans, dev_remote, reg_id, next_rid, dev_calls>>
    /\ UNCHANGED <<qvars, svars, evars, uvars, fvars, ivars, backoff, mvars, dpc>>

\* the statuses the platform gives for a request about a device it holds
\* (held) or does not hold: 200 needs the device, 404 its absence, except that
\* the create POST gets 200 where the device is absent
Answers(req, held) ==
    {o \in HttpOutcomes : /\ o = 200 => (held <=> req # "http_post")
                          /\ o = 404 => ~held}

\* where the first answer leads: a second request in flight ("http_post",
\* "http_put"), or the end with an exception or none. body: the body of the
\* probe answer; token: the getAccessToken of __updateDevice returns one.
\* JSONDecodeError and KeyError are logged and the method returns; DeviceUpdateError
\* of __updateDevice and the TypeError of device_atr["id"] pass the except clauses
Device1Next(kind, outcome, body, token) ==
    IF kind = "delete"
    THEN IF outcome \in {200, 404} THEN <<"done", "none">> ELSE <<"done", "DeviceDeleteError">>
    ELSE IF outcome = 404 THEN <<"http_post", "none">>
         ELSE IF outcome = 200
              THEN IF BodyRaises(body) \in {"JSONDecodeError", "KeyError"} THEN <<"done", "none">>
                   ELSE IF BodyRaises(body) # "none" THEN <<"done", BodyRaises(body)>>
                   ELSE IF ~token THEN <<"done", "DeviceUpdateError">>
                   ELSE <<"http_put", "none">>
              ELSE <<"done", "DeviceAddError">>

\* the first answer arrives: the platform drops the device on DELETE 200; on
\* probe 200 __addDevice stores device_atr["id"] and goes on to req.send() of
\* the PUT of __updateDevice, on 404 to req.send() of the create POST
DeviceReturn1(t, outcome, body, token) ==
    /\ hpc[t] = "http1"
    /\ outcome \in Answers(IF op_kind[t] = "delete" THEN "http_delete" ELSE "http_get", reg_id # 0)
    /\ LET nx == Device1Next(op_kind[t], outcome, body, token)
       IN  /\ hpc' = [hpc EXCEPT ![t] = nx[1]]
           /\ hexc' = [hexc EXCEPT ![t] = nx[2]]
    /\ reg_id' = IF op_kind[t] = "delete" /\ outcome = 200 THEN 0 ELSE reg_id
    /\ dev_remote' = IF op_kind[t] = "add" /\ outcome = 200 /\ body = "object"
                     THEN reg_id ELSE dev_remote
    /\ dev_ans' = [dev_ans EXCEPT ![t] =
                      [id |-> IF op_kind[t] = "add" /\ outcome = 200 THEN reg_id ELSE 0,
                       probe |-> outcome,
                       failed |-> \/ outcome \notin {200, 404}
                                  \/ op_kind[t] = "add" /\ outcome = 200
                                        /\ (body # "object" \/ ~token)]]
    /\ UNCHANGED <<hub_init, hub_id, hub_sync_lock, hub_sync_event, workers, op_kind, op_worker,
                   join_idx, inits, started_during, before_sync, at_get>>
    /\ UNCHANGED <<init_req, cleared_id, sent_cleared, remote_hash, sync_devs, sync_hash, sync_put, sync_ans,
                   next_rid, dev_calls>>
    /\ UNCHANGED <<qvars, svars, evars, uvars, fvars, ivars, backoff, mvars, dpc>>

\* the exception after the second answer: POST non-200 is DeviceAddError, a
\* POST body json.loads or ["id"] refuse is only logged; PUT 404 is
\* DeviceNotFoundError, other non-200 and timeouts DeviceUpdateError, which
\* __addDevice does not catch
Device2Raises(req, outcome, body) ==
    IF req = "http_post"
    THEN IF outcome # 200 THEN "DeviceAddError"
         ELSE IF BodyRaises(body) \in {"JSONDecodeError", "KeyError"} THEN "none"
         ELSE BodyRaises(body)
    ELSE IF outcome = 200 THEN "none"
         ELSE IF outcome = 404 THEN "DeviceNotFoundError"
         ELSE "DeviceUpdateError"

\* the second answer arrives: on POST 200 the platform has created the device
\* under a new id, and __addDevice stores device_atr["id"]
DeviceReturn2(t, outcome, body) ==
    /\ hpc[t] \in {"http_post", "http_put"}
    /\ outcome \in Answers(hpc[t], reg_id # 0)
    /\ hpc' = [hpc EXCEPT ![t] = "done"]
    /\ hexc' = [hexc EXCEPT ![t] = Device2Raises(hpc[t], outcome, body)]
    /\ IF hpc[t] = "http_post" /\ outcome = 200
       THEN /\ next_rid' = next_rid + 1
            /\ reg_id' = next_rid + 1
            /\ dev_ans' = [dev_ans EXCEPT ![t].id = next_rid + 1, ![t].failed = body # "object"]
            /\ dev_remote' = IF body = "object" THEN next_rid + 1 ELSE dev_remote
       ELSE /\ dev_ans' = [dev_ans EXCEPT ![t].failed = outcome # 200]
            /\ UNCHANGED <<next_rid, reg_id, dev_remote>>
    /\ UNCHANGED <<hub_init, hub_id, hub_sync_lock, hub_sync_event, workers, op_kind, op_worker,
                   join_idx, inits, started_during, before_sync, at_get>>
    /\ UNCHANGED <<init_req, cleared_id, sent_cleared, remote_hash, sync_devs, sync_hash, sync_put, sync_ans,
                   dev_calls>>
    /\ UNCHANGED <<qvars, svars, evars, uvars, fvars, ivars, backoff, mvars, dpc>>

\* the call has ended and its thread with it: the caller can make another call
DeviceEnd(t) ==
    /\ hpc[t] = "done"
    /\ hpc' = [hpc EXCEPT ![t] = "idle"]
    /\ UNCHANGED <<hub_init, hub_id, hub_sync_lock, hub_sync_event, workers, op_kind, op_worker,
                   join_idx, hexc, inits, started_during, before_sync, at_get>>
    /\ UNCHANGED <<qvars, svars, evars, uvars, fvars, ivars, pvars, backoff, mvars, dpc>>

\* the ids the integrator assigns to device.remote_id
RemoteIds == {8, 9}

\* device.remote_id = arg by the integrator: AttributeError once an id is held
setRemoteId(arg) ==
    /\ dev_remote' = IF dev_remote # 0 THEN dev_remote ELSE arg
    /\ hexc' = [hexc EXCEPT !["main"] = IF dev_remote # 0 THEN "AttributeError" ELSE "none"]
    /\ UNCHANGED <<hub_init, hub_id, hub_sync_lock, hub_sync_event, workers, hpc, op_kind,
                   op_worker, join_idx, inits, started_during, before_sync, at_get>>
    /\ UNCHANGED <<init_req, cleared_id, sent_cleared, remote_hash, sync_devs, sync_hash, sync_put, sync_ans,
                   reg_id, next_rid, dev_ans, dev_calls>>
    /\ UNCHANGED <<qvars, svars, evars, uvars, fvars, ivars, backoff, mvars, dpc>>

-----------------------------------------------------------------------------
(* Hub reconciliation: Client.__syncHub *)

\* the call is made; the thread goes on to self.__hub_sync_lock.acquire()
SyncCall(s, devices) ==
    /\ hpc[s] = "idle"
    /\ hpc' = [hpc EXCEPT ![s] = "acquire"]
    /\ before_sync' = [before_sync EXCEPT
                          ![s] = {t \in DeviceThreads : hpc[t] # "idle" /\ op_worker[t]}]
    /\ sync_devs' = [sync_devs EXCEPT ![s] = devices]
    /\ sync_ans' = [sync_ans EXCEPT ![s] = NoSyncAns]
    /\ UNCHANGED <<hub_init, hub_id, hub_sync_lock, hub_sync_event, workers, op_kind, op_worker,
                   join_idx, hexc, inits, started_during, at_get>>
    /\ UNCHANGED <<init_req, cleared_id, sent_cleared, remote_hash, sync_hash, sync_put,
                   dev_remote, reg_id, next_rid, dev_ans, dev_calls>>
    /\ UNCHANGED <<qvars, svars, evars, uvars, fvars, ivars, backoff, mvars, dpc>>

\* self.__hub_sync_lock.acquire()
SyncAcquire(s) ==
    /\ hpc[s] = "acquire"
    /\ hub_sync_lock = "free"
    /\ hub_sync_lock' = s
    /\ hpc' = [hpc EXCEPT ![s] = "check"]
    /\ UNCHANGED <<hub_init, hub_id, hub_sync_event, workers, op_kind, op_worker,
                   join_idx, hexc, inits, started_during, before_sync, at_get>>
    /\ UNCHANGED <<qvars, svars, evars, uvars, fvars, ivars, pvars, backoff, mvars, dpc>>

\* a __syncHub that goes on without reading __hub_init
SyncCheckInitSkipped(s) ==
    /\ hpc[s] = "check"
    /\ hpc' = [hpc EXCEPT ![s] = "clear"]
    /\ UNCHANGED <<hub_init, hub_id, hub_sync_lock, hub_sync_event, workers, op_kind, op_worker,
                   join_idx, hexc, inits, started_during, before_sync, at_get>>
    /\ UNCHANGED <<qvars, svars, evars, uvars, fvars, ivars, pvars, backoff, mvars, dpc>>

\* the initialisation check without the release on its error branch
SyncCheckInitKeepsLock(s) ==
    /\ hpc[s] = "check"
    /\ hpc' = [hpc EXCEPT ![s] = IF hub_init THEN "clear" ELSE "done"]
    /\ hexc' = [hexc EXCEPT ![s] = IF hub_init THEN hexc[s] ELSE "HubNotInitializedError"]
    /\ UNCHANGED <<hub_init, hub_id, hub_sync_lock, hub_sync_event, workers, op_kind, op_worker,
                   join_idx, inits, started_during, before_sync, at_get>>
    /\ UNCHANGED <<qvars, svars, evars, uvars, fvars, ivars, pvars, backoff, mvars, dpc>>

\* if not self.__hub_init: release the lock and raise HubNotInitializedError
SyncCheckInit(s) ==
    /\ hpc[s] = "check"
    /\ IF hub_init
       THEN /\ hpc' = [hpc EXCEPT ![s] = "clear"]
            /\ UNCHANGED <<hub_sync_lock, hexc>>
       ELSE /\ hpc' = [hpc EXCEPT ![s] = "done"]
            /\ hub_sync_lock' = "free"
            /\ hexc' = [hexc EXCEPT ![s] = "HubNotInitializedError"]
    /\ UNCHANGED <<hub_init, hub_id, hub_sync_event, workers, op_kind, op_worker,
                   join_idx, inits, started_during, before_sync, at_get>>
    /\ UNCHANGED <<qvars, svars, evars, uvars, fvars, ivars, pvars, backoff, mvars, dpc>>

\* self.__hub_sync_event.clear()
SyncClearEvent(s) ==
    /\ hpc[s] = "clear"
    /\ hub_sync_event' = FALSE
    /\ hpc' = [hpc EXCEPT ![s] = "ifworkers"]
    /\ UNCHANGED <<hub_init, hub_id, hub_sync_lock, workers, op_kind, op_worker,
                   join_idx, hexc, inits, started_during, before_sync, at_get>>
    /\ UNCHANGED <<qvars, svars, evars, uvars, fvars, ivars, pvars, backoff, mvars, dpc>>

\* if self.__workers: start iterating the list, else go on to the hash and token
SyncIfWorkers(s) ==
    /\ hpc[s] = "ifworkers"
    /\ hpc' = [hpc EXCEPT ![s] = IF workers # <<>> THEN "join" ELSE "get"]
    /\ join_idx' = [join_idx EXCEPT ![s] = 1]
    /\ UNCHANGED <<hub_init, hub_id, hub_sync_lock, hub_sync_event, workers, op_kind, op_worker,
                   hexc, inits, started_during, before_sync, at_get>>
    /\ UNCHANGED <<qvars, svars, evars, uvars, fvars, ivars, pvars, backoff, mvars, dpc>>

\* for worker in self.__workers: worker.join(). The list iterator reads the
\* list by index, so it also yields threads appended while it runs; join
\* returns when the thread has ended
SyncJoin(s) ==
    /\ hpc[s] = "join"
    /\ IF join_idx[s] <= Len(workers)
       THEN /\ hpc[workers[join_idx[s]]] = "done"
            /\ join_idx' = [join_idx EXCEPT ![s] = join_idx[s] + 1]
            /\ UNCHANGED hpc
       ELSE /\ hpc' = [hpc EXCEPT ![s] = "clearworkers"]
            /\ UNCHANGED join_idx
    /\ UNCHANGED <<hub_init, hub_id, hub_sync_lock, hub_sync_event, workers, op_kind, op_worker,
                   hexc, inits, started_during, before_sync, at_get>>
    /\ UNCHANGED <<qvars, svars, evars, uvars, fvars, ivars, pvars, backoff, mvars, dpc>>

\* self.__workers.clear()
SyncClearWorkers(s) ==
    /\ hpc[s] = "clearworkers"
    /\ workers' = <<>>
    /\ hpc' = [hpc EXCEPT ![s] = "get"]
    /\ UNCHANGED <<hub_init, hub_id, hub_sync_lock, hub_sync_event, op_kind, op_worker,
                   join_idx, hexc, inits, started_during, before_sync, at_get>>
    /\ UNCHANGED <<qvars, svars, evars, uvars, fvars, ivars, pvars, backoff, mvars, dpc>>

\* devices_hash = __hashDevices(devices), then self.__auth.getAccessToken(),
\* where NoTokenError becomes HubSyncError, then req.send() of the hub GET
SyncSendGet(s, token) ==
    /\ hpc[s] = "get"
    /\ hpc' = [hpc EXCEPT ![s] = IF token THEN "get_wait" ELSE "exit_set"]
    /\ hexc' = [hexc EXCEPT ![s] = IF token THEN "none" ELSE "HubSyncError"]
    /\ at_get' = IF token THEN [at_get EXCEPT ![s] = IF workers = <<>> THEN "empty" ELSE "pending"]
                 ELSE at_get
    /\ sync_hash' = [sync_hash EXCEPT ![s] = hashDevices(sync_devs[s], HubDigestOrder)]
    /\ sent_cleared' = (sent_cleared \/ (token /\ hub_id # "" /\ hub_id = cleared_id))
    /\ UNCHANGED <<hub_init, hub_id, hub_sync_lock, hub_sync_event, workers, op_kind, op_worker,
                   join_idx, inits, started_during, before_sync>>
    /\ UNCHANGED <<init_req, cleared_id, remote_hash, sync_devs, sync_put, sync_ans,
                   dev_remote, reg_id, next_rid, dev_ans, dev_calls>>
    /\ UNCHANGED <<qvars, svars, evars, uvars, fvars, ivars, backoff, mvars, dpc>>

\* __syncHub with the PUT issued whatever the remote hash is
SyncGetNextAlwaysPut(outcome, body, same_hash) ==
    IF outcome = 200
    THEN IF BodyRaises(body) \in {"JSONDecodeError", "KeyError"} THEN <<"exit_set", "HubSyncError">>
         ELSE IF BodyRaises(body) # "none" THEN <<"exit_set", BodyRaises(body)>>
         ELSE <<"put_wait", "none">>
    ELSE IF outcome = 404 THEN <<"exit_set", "HubNotFoundError">>
    ELSE <<"exit_set", "HubSyncError">>

\* __syncHub with the PUT never issued
SyncGetNextNoPut(outcome, body, same_hash) ==
    IF outcome = 200
    THEN IF BodyRaises(body) \in {"JSONDecodeError", "KeyError"} THEN <<"exit_set", "HubSyncError">>
         ELSE IF BodyRaises(body) # "none" THEN <<"exit_set", BodyRaises(body)>>
         ELSE <<"exit_set", "none">>
    ELSE IF outcome = 404 THEN <<"exit_set", "HubNotFoundError">>
    ELSE <<"exit_set", "HubSyncError">>

\* where the GET answer leads: the PUT in flight, or the exit with an exception
\* or none. body: what json.loads, hub["name"] and hub["hash"] make of the body
\* (a TypeError passes the inner except clauses and is raised again by the
\* outer one); same_hash: hub["hash"] == devices_hash
SyncGetNext(outcome, body, same_hash) ==
    IF outcome = 200
    THEN IF BodyRaises(body) \in {"JSONDecodeError", "KeyError"} THEN <<"exit_set", "HubSyncError">>
         ELSE IF BodyRaises(body) # "none" THEN <<"exit_set", BodyRaises(body)>>
         ELSE IF same_hash THEN <<"exit_set", "none">>
         ELSE <<"put_wait", "none">>
    ELSE IF outcome = 404 THEN <<"exit_set", "HubNotFoundError">>
    ELSE <<"exit_set", "HubSyncError">>

\* the GET answer arrives and shows the hash the platform holds (rhash); on a
\* differing hash syncHub goes on to req.send() of the PUT; on 404 it drops
\* the hub id
SyncGetReturn(s, outcome, body, rhash) ==
    /\ hpc[s] = "get_wait"
    /\ LET nx == SyncGetNext(outcome, body, rhash = RemoteHash(sync_hash[s]))
       IN  /\ hpc' = [hpc EXCEPT ![s] = nx[1]]
           /\ hexc' = [hexc EXCEPT ![s] = nx[2]]
           /\ sync_put' = [sync_put EXCEPT ![s] = nx[1] = "put_wait"]
           /\ IF outcome = 404
              THEN cleared_id' = hub_id /\ sent_cleared' = FALSE
              ELSE /\ cleared_id' = cleared_id
                   /\ sent_cleared' = (sent_cleared \/ (nx[1] = "put_wait" /\ hub_id # ""
                                                        /\ hub_id = cleared_id))
    /\ hub_id' = DropHubId(hub_id, outcome)
    /\ remote_hash' = IF outcome = 200 /\ body = "object" THEN rhash ELSE remote_hash
    /\ sync_ans' = [sync_ans EXCEPT ![s] = [req |-> "GET", status |-> outcome,
                                            hashed |-> outcome = 200 /\ body = "object"]]
    /\ UNCHANGED <<hub_init, hub_sync_lock, hub_sync_event, workers, op_kind, op_worker,
                   join_idx, inits, started_during, before_sync, at_get>>
    /\ UNCHANGED <<init_req, sync_devs, sync_hash, dev_remote, reg_id, next_rid, dev_ans,
                   dev_calls>>
    /\ UNCHANGED <<qvars, svars, evars, uvars, fvars, ivars, backoff, mvars, dpc>>

\* the exception after the PUT answer
SyncPutRaises(outcome) ==
    IF outcome = 200 THEN "none"
    ELSE IF outcome = 400 THEN "HubSyncDeviceError"
    ELSE IF outcome = 404 THEN "HubNotFoundError"
    ELSE "HubSyncError"

\* the PUT answer arrives: with 200 the platform holds the hash of the PUT
\* body; without an answer it holds it or not (applied); on 404 syncHub drops
\* the hub id
SyncPutReturn(s, outcome, applied) ==
    /\ hpc[s] = "put_wait"
    /\ applied => outcome = NoAnswer
    /\ hpc' = [hpc EXCEPT ![s] = "exit_set"]
    /\ hexc' = [hexc EXCEPT ![s] = SyncPutRaises(outcome)]
    /\ hub_id' = DropHubId(hub_id, outcome)
    /\ remote_hash' = IF outcome = 200 \/ applied THEN RemoteHash(sync_hash[s]) ELSE remote_hash
    /\ IF outcome = 404
       THEN cleared_id' = hub_id /\ sent_cleared' = FALSE
       ELSE UNCHANGED <<cleared_id, sent_cleared>>
    /\ UNCHANGED <<hub_init, hub_sync_lock, hub_sync_event, workers, op_kind, op_worker,
                   join_idx, inits, started_during, before_sync, at_get>>
    /\ sync_ans' = [sync_ans EXCEPT ![s] = [req |-> "PUT", status |-> outcome, hashed |-> FALSE]]
    /\ UNCHANGED <<init_req, sync_devs, sync_hash, sync_put, dev_remote, reg_id, next_rid,
                   dev_ans, dev_calls>>
    /\ UNCHANGED <<qvars, svars, evars, uvars, fvars, ivars, backoff, mvars, dpc>>

\* an exit of __syncHub that leaves the event as it is
SyncSetEventSkipped(s) ==
    /\ hpc[s] = "exit_set"
    /\ hpc' = [hpc EXCEPT ![s] = "exit_release"]
    /\ UNCHANGED <<hub_init, hub_id, hub_sync_lock, hub_sync_event, workers, op_kind, op_worker,
                   join_idx, hexc, inits, started_during, before_sync, at_get>>
    /\ UNCHANGED <<qvars, svars, evars, uvars, fvars, ivars, pvars, backoff, mvars, dpc>>

\* self.__hub_sync_event.set(), on the normal and on the exceptional exit
SyncSetEvent(s) ==
    /\ hpc[s] = "exit_set"
    /\ hub_sync_event' = TRUE
    /\ hpc' = [hpc EXCEPT ![s] = "exit_release"]
    /\ UNCHANGED <<hub_init, hub_id, hub_sync_lock, workers, op_kind, op_worker,
                   join_idx, hexc, inits, started_during, before_sync, at_get>>
    /\ UNCHANGED <<qvars, svars, evars, uvars, fvars, ivars, pvars, backoff, mvars, dpc>>

\* self.__hub_sync_lock.release()
SyncRelease(s) ==
    /\ hpc[s] = "exit_release"
    /\ hub_sync_lock' = "free"
    /\ hpc' = [hpc EXCEPT ![s] = "done"]
    /\ UNCHANGED <<hub_init, hub_id, hub_sync_event, workers, op_kind, op_worker,
                   join_idx, hexc, inits, started_during, before_sync, at_get>>
    /\ UNCHANGED <<qvars, svars, evars, uvars, fvars, ivars, pvars, backoff, mvars, dpc>>

NextHub ==
    \/ \E token \in BOOLEAN, o \in HttpOutcomes, body \in HubBodies :
          inits < HubInits /\ initHub(token, o, body, "h1")
    \/ \E t \in DeviceThreads : \E kind \in DeviceKinds(t), worker \in BOOLEAN :
          DeviceCall(t, kind, worker)
    \/ \E t \in DeviceThreads : DeviceWait(t)
    \/ \E t \in DeviceThreads : DeviceRegister(t)
    \/ \E t \in DeviceThreads, token \in BOOLEAN : DeviceSend1(t, token)
    \/ \E t \in DeviceThreads, o \in HttpOutcomes, body \in HubBodies, token \in BOOLEAN :
          DeviceReturn1(t, o, body, token)
    \/ \E t \in DeviceThreads, o \in HttpOutcomes, body \in HubBodies : DeviceReturn2(t, o, body)
    \/ \E s \in HubSyncCallers : SyncCall(s, HubDevices)
    \/ \E s \in HubSyncCallers : SyncAcquire(s)
    \/ \E s \in HubSyncCallers : SyncCheckInit(s)
    \/ \E s \in HubSyncCallers : SyncClearEvent(s)
    \/ \E s \in HubSyncCallers : SyncIfWorkers(s)
    \/ \E s \in HubSyncCallers : SyncJoin(s)
    \/ \E s \in HubSyncCallers : SyncClearWorkers(s)
    \/ \E s \in HubSyncCallers, token \in BOOLEAN : SyncSendGet(s, token)
    \/ \E s \in HubSyncCallers, o \in HttpOutcomes, body \in HubBodies, rhash \in HubHashes :
          SyncGetReturn(s, o, body, rhash)
    \/ \E s \in HubSyncCallers, o \in HttpOutcomes : SyncPutReturn(s, o, FALSE)
    \/ \E s \in HubSyncCallers : SyncSetEvent(s)
    \/ \E s \in HubSyncCallers : SyncRelease(s)

\* the steps of a __syncHub call that has been made; its GET shows no hash or
\* gets no answer, its PUT succeeds
SyncStep(s) ==
    \/ SyncAcquire(s)
    \/ SyncCheckInit(s)
    \/ SyncClearEvent(s)
    \/ SyncIfWorkers(s)
    \/ SyncJoin(s)
    \/ SyncClearWorkers(s)
    \/ SyncSendGet(s, TRUE)
    \/ \E o \in {200, NoAnswer} : SyncGetReturn(s, o, "object", NullHash)
    \/ SyncPutReturn(s, 200, FALSE)
    \/ SyncSetEvent(s)
    \/ SyncRelease(s)

\* the steps of an __addDevice / __deleteDevice call that has been made; its
\* first request returns 404 or gets no answer, the create POST succeeds
DeviceStep(t) ==
    \/ DeviceWait(t)
    \/ DeviceRegister(t)
    \/ DeviceSend1(t, TRUE)
    \/ \E o \in {404, NoAnswer} : DeviceReturn1(t, o, "object", TRUE)
    \/ DeviceReturn2(t, 200, "object")

\* hub reconciliation for the progress check: one initHub, one __syncHub
\* caller and the device threads
NextHubLive ==
    \/ inits < HubInits /\ initHub(TRUE, 200, "object", "h1")
    \/ \E t \in DeviceThreads : \E kind \in DeviceKinds(t), worker \in BOOLEAN :
          DeviceCall(t, kind, worker)
    \/ \E t \in DeviceThreads : DeviceStep(t)
    \/ \E s \in HubSyncCallers : SyncCall(s, HubDevices)
    \/ \E s \in HubSyncCallers : SyncStep(s)

\* hub life cycle: initHub calls against two syncHub callers
NextSync ==
    \/ \E token \in BOOLEAN, o \in HttpOutcomes, body \in BodyKinds :
          initHub(token, o, body, "h1")
    \/ \E s \in SyncThreads, devices \in SyncDeviceLists : SyncCall(s, devices)
    \/ \E s \in SyncThreads : SyncAcquire(s)
    \/ \E s \in SyncThreads : SyncCheckInit(s)
    \/ \E s \in SyncThreads : SyncClearEvent(s)
    \/ \E s \in SyncThreads : SyncIfWorkers(s)
    \/ \E s \in SyncThreads, token \in BOOLEAN : SyncSendGet(s, token)
    \/ \E s \in SyncThreads, o \in HttpOutcomes, body \in BodyKinds, rhash \in RemoteHashes :
          SyncGetReturn(s, o, body, rhash)
    \/ \E s \in SyncThreads, o \in HttpOutcomes, applied \in BOOLEAN : SyncPutReturn(s, o, applied)
    \/ \E s \in SyncThreads : SyncSetEvent(s)
    \/ \E s \in SyncThreads : SyncRelease(s)

\* one Device object: addDevice, deleteDevice and updateDevice calls for it,
\* one after another or two at a time, and the integrator's assignments
NextDevice ==
    \/ \E t \in DeviceThreads, kind \in {"add", "delete", "update"} : DeviceCall(t, kind, FALSE)
    \/ \E t \in DeviceThreads : DeviceRegister(t)
    \/ \E t \in DeviceThreads, token \in BOOLEAN : DeviceSend1(t, token)
    \/ \E t \in DeviceThreads, o \in HttpOutcomes, body \in BodyKinds, token \in BOOLEAN :
          DeviceReturn1(t, o, body, token)
    \/ \E t \in DeviceThreads, o \in HttpOutcomes, body \in BodyKinds : DeviceReturn2(t, o, body)
    \/ \E t \in DeviceThreads : DeviceEnd(t)
    \/ \E arg \in RemoteIds : setRemoteId(arg)

-----------------------------------------------------------------------------
(* Session: Client.connect, disconnect, __connect, __reconnect, __onConnect, *)
(* __onDisconnect and the loop thread of the MQTT transport                 *)

\* threads of the integrator that call connect()
UserThreads == {"u1"}

\* threads running Client.__reconnect, in the order they are created
ReconnOrder == <<"k1", "k2">>

ReconnThreads == {ReconnOrder[i] : i \in 1..Len(ReconnOrder)}

\* threads running mqtt.Client.__loop, in the order they are created
LoopOrder == <<"l1", "l2">>

LoopThreads == {LoopOrder[i] : i \in 1..Len(LoopOrder)}

\* the next thread object to create: the first of order that has not run yet
NewThread(order, pcs) ==
    LET idx == {i \in 1..Len(order) : pcs[order[i]] = "unused"}
    IN  IF idx = {} THEN {} ELSE {order[CHOOSE i \in idx : \A j \in idx : i <= j]}

MQTT_ERR_SUCCESS == 0

\* a return code of paho's loop() or connect() other than MQTT_ERR_SUCCESS
MQTT_ERR_CONN_LOST == 7

\* transport connects started so far
Attempts == Cardinality({l \in LoopThreads : lpc[l] # "unused"})

NoCall == [active |-> FALSE, reconnect |-> FALSE, asynchronous |-> FALSE, thread |-> "none", att0 |-> 0, flag0 |-> FALSE]

\* cc_conf.connector.reconn_delay_min
reconn_delay_min == 30

\* cc_conf.connector.reconn_delay_max
reconn_delay_max == 600

\* cc_conf.connector.reconn_delay_factor: the float 2.0
reconn_delay_factor == <<2, 1, "float">>

\* a sleep computed for the pass after the current one
reconnectDelayAhead(retry_num) ==
    calcDuration(reconn_delay_min, reconn_delay_max, retry_num + 1, reconn_delay_factor)

\* the sleep of a __reconnect pass with retry: calcDuration of the configured delays
reconnectDelay(retry_num) ==
    calcDuration(reconn_delay_min, reconn_delay_max, retry_num, reconn_delay_factor)

\* a __reconnect thread as __onDisconnect starts it (retry = 0), before its first pass
NoLoop == [start |-> 0, attempts |-> 0, n |-> 0, duration |-> 0]

NoDisc == [fired |-> FALSE, code |-> 0, connected |-> FALSE, requested |-> FALSE, started |-> FALSE]

\* Future.result() of a worker: the stored exception is raised, "none" is a normal return
FutureResult(done, exception) ==
    IF ~done THEN "FutureNotDoneError" ELSE exception

InitSession ==
    /\ connected_flag = FALSE
    /\ reconnect_flag = FALSE
    /\ connect_lock = "free"
    /\ comm = FALSE
    /\ usr_disconn = FALSE
    /\ dpc = "idle"
    /\ sock = FALSE
    /\ tpc = [x \in UserThreads \cup ReconnThreads |-> IF x \in UserThreads THEN "idle" ELSE "unused"]
    /\ ucall = [u \in UserThreads |-> NoCall]
    /\ retry = [k \in ReconnThreads |-> 0]
    /\ cw_done = [x \in UserThreads \cup ReconnThreads |-> TRUE]
    /\ cw_exc = [x \in UserThreads \cup ReconnThreads |-> "none"]
    /\ lpc = [l \in LoopThreads |-> "unused"]
    /\ lrc = [l \in LoopThreads |-> MQTT_ERR_SUCCESS]
    /\ lowner = [l \in LoopThreads |-> "none"]
    /\ calls = 0
    /\ disc_since = FALSE
    /\ late_attempt = {}
    /\ late_connect = FALSE
    /\ last_disc = NoDisc
    /\ still_conn = [u \in UserThreads |-> FALSE]
    /\ backoff = [k \in ReconnThreads |-> NoLoop]

\* Client.connect(reconnect, asynchronous) up to worker.start(): the flag is
\* stored, then either a ThreadWorker runs __reconnect(-1) in a new thread or
\* an EventWorker runs __connect in the calling thread
connect(u, reconnect, asynchronous) ==
    /\ tpc[u] = "idle"
    /\ cw_done[u]
    /\ calls < MaxConnects
    /\ calls' = calls + 1
    /\ reconnect_flag' = reconnect
    /\ disc_since' = FALSE
    /\ still_conn' = [still_conn EXCEPT ![u] = connected_flag]
    /\ IF reconnect
       THEN \E k \in NewThread(ReconnOrder, tpc) :
                /\ tpc' = [tpc EXCEPT ![k] = "while", ![u] = IF asynchronous THEN "idle" ELSE "join"]
                /\ retry' = [retry EXCEPT ![k] = -1]
                /\ backoff' = [backoff EXCEPT ![k] = [NoLoop EXCEPT !.start = -1]]
                /\ ucall' = [ucall EXCEPT ![u] = [active |-> TRUE, reconnect |-> TRUE,
                                asynchronous |-> asynchronous, thread |-> k, att0 |-> Attempts,
                                flag0 |-> FALSE]]
                /\ UNCHANGED <<cw_done, cw_exc>>
       ELSE /\ tpc' = [tpc EXCEPT ![u] = "acquire"]
            /\ ucall' = [ucall EXCEPT ![u] = [active |-> TRUE, reconnect |-> FALSE,
                            asynchronous |-> asynchronous, thread |-> "none", att0 |-> Attempts,
                            flag0 |-> reconnect_flag]]
            /\ cw_done' = [cw_done EXCEPT ![u] = FALSE]
            /\ cw_exc' = [cw_exc EXCEPT ![u] = "none"]
            /\ UNCHANGED <<retry, backoff>>
    /\ UNCHANGED <<connected_flag, connect_lock, comm, usr_disconn, sock, lpc, lrc, lowner,
                   late_attempt, late_connect, last_disc>>
    /\ UNCHANGED <<qvars, hvars, evars, uvars, fvars, ivars, pvars, mvars, dpc>>

\* Client.connect, synchronous with reconnect: future.wait() on the ThreadWorker
\* returns when the __reconnect thread has ended; __reconnect raises nothing
connectJoin(u) ==
    /\ tpc[u] = "join"
    /\ tpc[ucall[u].thread] = "ended"
    /\ tpc' = [tpc EXCEPT ![u] = "idle"]
    /\ UNCHANGED <<connected_flag, reconnect_flag, connect_lock, comm, usr_disconn, sock, ucall, retry,
                   cw_done, cw_exc, lpc, lrc, lowner, calls, disc_since, late_attempt, late_connect,
                   last_disc, still_conn>>
    /\ UNCHANGED <<qvars, hvars, evars, uvars, fvars, ivars, pvars, backoff, mvars, dpc>>

\* future.wait() on the connect EventWorker: in Client.connect (synchronous,
\* followed by future.result()) and in Client.__reconnect (result ignored)
connectWait(x) ==
    /\ tpc[x] = "wait"
    /\ cw_done[x]
    /\ tpc' = [tpc EXCEPT ![x] = IF x \in UserThreads THEN "idle" ELSE "while"]
    /\ UNCHANGED <<connected_flag, reconnect_flag, connect_lock, comm, usr_disconn, sock, ucall, retry,
                   cw_done, cw_exc, lpc, lrc, lowner, calls, disc_since, late_attempt, late_connect,
                   last_disc, still_conn>>
    /\ UNCHANGED <<qvars, hvars, evars, uvars, fvars, ivars, pvars, backoff, mvars, dpc>>

\* Client.disconnect() up to the socket check of mqtt.Client.disconnect: the
\* reconnect flag is cleared first; without a transport object or without a
\* socket the call raises after the flag has been cleared
disconnect ==
    /\ dpc = "idle"
    /\ reconnect_flag' = FALSE
    /\ disc_since' = TRUE
    /\ dpc' = IF comm /\ sock THEN "set" ELSE "idle"
    /\ UNCHANGED <<connected_flag, connect_lock, comm, usr_disconn, sock, tpc, ucall, retry, cw_done,
                   cw_exc, lpc, lrc, lowner, calls, late_attempt, late_connect, last_disc, still_conn>>
    /\ UNCHANGED <<qvars, hvars, evars, uvars, fvars, ivars, pvars, backoff, mvars>>

\* mqtt.Client.disconnect after the socket check: self.__usr_disconn = True.
\* No lock covers the check and the assignment, so the loop thread can run
\* between them
disconnectSet ==
    /\ dpc = "set"
    /\ usr_disconn' = TRUE
    /\ dpc' = "idle"
    /\ UNCHANGED <<connected_flag, reconnect_flag, connect_lock, comm, sock, tpc, ucall, retry,
                   cw_done, cw_exc, lpc, lrc, lowner, calls, disc_since, late_attempt, late_connect,
                   last_disc, still_conn>>
    /\ UNCHANGED <<qvars, hvars, evars, uvars, fvars, ivars, pvars, backoff, mvars>>

\* where a thread continues after worker.start() of its connect EventWorker
AfterStart(x) ==
    IF x \in UserThreads /\ ucall[x].asynchronous THEN "idle" ELSE "wait"

\* an acquire() that does not wait for the lock to be free
connectAcquireNoWait(x) ==
    /\ tpc[x] = "acquire"
    /\ connect_lock' = x
    /\ tpc' = [tpc EXCEPT ![x] = "check"]
    /\ UNCHANGED <<connected_flag, reconnect_flag, comm, usr_disconn, sock, ucall, retry,
                   cw_done, cw_exc, lpc, lrc, lowner, calls, disc_since, late_attempt, late_connect,
                   last_disc, still_conn>>
    /\ UNCHANGED <<qvars, hvars, evars, uvars, fvars, ivars, pvars, backoff, mvars, dpc>>

\* Client.__connect: self.__connect_lock.acquire()
connectAcquire(x) ==
    /\ tpc[x] = "acquire"
    /\ connect_lock = "free"
    /\ connect_lock' = x
    /\ tpc' = [tpc EXCEPT ![x] = "check"]
    /\ UNCHANGED <<connected_flag, reconnect_flag, comm, usr_disconn, sock, ucall, retry,
                   cw_done, cw_exc, lpc, lrc, lowner, calls, disc_since, late_attempt, late_connect,
                   last_disc, still_conn>>
    /\ UNCHANGED <<qvars, hvars, evars, uvars, fvars, ivars, pvars, backoff, mvars, dpc>>

\* Client.__connect: if self.__connected_flag: release, raise RuntimeError;
\* EventWorker.start() stores the exception in the worker and signals it
connectCheck(x) ==
    /\ tpc[x] = "check"
    /\ IF connected_flag
       THEN /\ connect_lock' = "free"
            /\ cw_exc' = [cw_exc EXCEPT ![x] = "RuntimeError"]
            /\ cw_done' = [cw_done EXCEPT ![x] = TRUE]
            /\ tpc' = [tpc EXCEPT ![x] = AfterStart(x)]
       ELSE /\ tpc' = [tpc EXCEPT ![x] = "start"]
            /\ UNCHANGED <<connect_lock, cw_exc, cw_done>>
    /\ UNCHANGED <<connected_flag, reconnect_flag, comm, usr_disconn, sock, ucall, retry,
                   lpc, lrc, lowner, calls, disc_since, late_attempt, late_connect,
                   last_disc, still_conn>>
    /\ UNCHANGED <<qvars, hvars, evars, uvars, fvars, ivars, pvars, backoff, mvars, dpc>>

\* Client.__connect: the transport object is reset (paho reinitialise: socket
\* closed, message ids restart) or created, on_done is installed and
\* mqtt.Client.connect starts the loop thread.  mqtt.Client.__init__ raises
\* MqttClientError when the configured loop_time, keepalive and msg_retry do
\* not fit (conf_ok false): the exception leaves __connect after acquire()
\* and before on_done exists, and EventWorker.start() stores it in the worker
connectStart(x, conf_ok) ==
    /\ tpc[x] = "start"
    /\ IF ~comm /\ ~conf_ok
       THEN /\ cw_exc' = [cw_exc EXCEPT ![x] = "MqttClientError"]
            /\ cw_done' = [cw_done EXCEPT ![x] = TRUE]
            /\ UNCHANGED <<lpc, lowner, late_attempt, comm, sock, next_mid>>
       ELSE /\ \E l \in NewThread(LoopOrder, lpc) :
                /\ lpc' = [lpc EXCEPT ![l] = "connect"]
                /\ lowner' = [lowner EXCEPT ![l] = x]
                /\ late_attempt' = IF x \in late_attempt /\ disc_since
                                   THEN late_attempt \cup {l} ELSE late_attempt
            /\ comm' = TRUE
            /\ sock' = IF comm THEN FALSE ELSE sock
            /\ next_mid' = IF comm THEN 1 ELSE next_mid
            /\ UNCHANGED <<cw_done, cw_exc>>
    /\ tpc' = [tpc EXCEPT ![x] = AfterStart(x)]
    /\ UNCHANGED <<connected_flag, reconnect_flag, connect_lock, usr_disconn, ucall, retry,
                   lrc, calls, disc_since, late_connect, last_disc, still_conn>>
    /\ UNCHANGED <<events, inflight, opc, op, w_sig, w_exc, clean_it, acked, at_clean>>
    /\ UNCHANGED <<qvars, hvars, uvars, fvars, ivars, pvars, backoff, mvars, dpc>>

\* Client.__reconnect: while not self.__connected_flag
reconnectWhile(k) ==
    /\ tpc[k] = "while"
    /\ tpc' = [tpc EXCEPT ![k] = IF connected_flag THEN "ended" ELSE "if"]
    /\ UNCHANGED <<connected_flag, reconnect_flag, connect_lock, comm, usr_disconn, sock, ucall, retry,
                   cw_done, cw_exc, lpc, lrc, lowner, calls, disc_since, late_attempt, late_connect,
                   last_disc, still_conn>>
    /\ UNCHANGED <<qvars, hvars, evars, uvars, fvars, ivars, pvars, backoff, mvars, dpc>>

\* Client.__reconnect: if not self.__reconnect_flag: break; retry += 1; with
\* retry > 0 the thread sleeps, otherwise it starts the connect worker at once
reconnectIf(k) ==
    /\ tpc[k] = "if"
    /\ IF ~reconnect_flag
       THEN /\ tpc' = [tpc EXCEPT ![k] = "ended"]
            /\ UNCHANGED <<retry, cw_done, cw_exc, backoff>>
       ELSE /\ retry[k] < MaxRetry
            /\ retry' = [retry EXCEPT ![k] = retry[k] + 1]
            /\ IF retry[k] + 1 > 0
               THEN /\ tpc' = [tpc EXCEPT ![k] = "sleep"]
                    /\ backoff' = [backoff EXCEPT ![k].n = retry[k] + 1,
                                                  ![k].duration = reconnectDelay(retry[k] + 1).value]
                    /\ UNCHANGED <<cw_done, cw_exc>>
               ELSE /\ tpc' = [tpc EXCEPT ![k] = "acquire"]
                    /\ cw_done' = [cw_done EXCEPT ![k] = FALSE]
                    /\ cw_exc' = [cw_exc EXCEPT ![k] = "none"]
                    /\ backoff' = [backoff EXCEPT ![k].attempts = backoff[k].attempts + 1]
    /\ late_attempt' = late_attempt \ {k}
    /\ UNCHANGED <<connected_flag, reconnect_flag, connect_lock, comm, usr_disconn, sock, ucall,
                   lpc, lrc, lowner, calls, disc_since, late_connect,
                   last_disc, still_conn>>
    /\ UNCHANGED <<qvars, hvars, evars, uvars, fvars, ivars, pvars, mvars, dpc>>

\* Client.__reconnect: time.sleep(duration) returns and the connect worker is
\* started; no flag is read in between
reconnectWake(k) ==
    /\ tpc[k] = "sleep"
    /\ tpc' = [tpc EXCEPT ![k] = "acquire"]
    /\ cw_done' = [cw_done EXCEPT ![k] = FALSE]
    /\ cw_exc' = [cw_exc EXCEPT ![k] = "none"]
    /\ backoff' = [backoff EXCEPT ![k].attempts = backoff[k].attempts + 1]
    /\ late_attempt' = IF disc_since THEN late_attempt \cup {k} ELSE late_attempt \ {k}
    /\ UNCHANGED <<connected_flag, reconnect_flag, connect_lock, comm, usr_disconn, sock, ucall, retry,
                   lpc, lrc, lowner, calls, disc_since, late_connect,
                   last_disc, still_conn>>
    /\ UNCHANGED <<qvars, hvars, evars, uvars, fvars, ivars, pvars, mvars, dpc>>

\* on_done of Client.__connect followed by the worker's set(): an
\* mqtt.ConnectError becomes ConnectError, the connect lock is released
connectOnDone(x, exception) ==
    /\ cw_exc' = [cw_exc EXCEPT ![x] = IF exception = "mqtt.ConnectError" THEN "ConnectError" ELSE exception]
    /\ cw_done' = [cw_done EXCEPT ![x] = TRUE]
    /\ connect_lock' = "free"

\* mqtt.Client.__loop: rc = self.__mqtt.connect(...); an exception the except
\* clauses log is treated like a return code other than MQTT_ERR_SUCCESS
loopConnect(l, ok) ==
    /\ lpc[l] = "connect"
    /\ lpc' = [lpc EXCEPT ![l] = IF ok THEN "on_connect" ELSE "failed"]
    /\ lrc' = [lrc EXCEPT ![l] = IF ok THEN MQTT_ERR_SUCCESS ELSE MQTT_ERR_CONN_LOST]
    /\ sock' = IF ok THEN TRUE ELSE sock
    /\ UNCHANGED <<connected_flag, reconnect_flag, connect_lock, comm, usr_disconn, tpc, ucall, retry,
                   cw_done, cw_exc, lowner, calls, disc_since, late_attempt, late_connect,
                   last_disc, still_conn>>
    /\ UNCHANGED <<qvars, hvars, evars, uvars, fvars, ivars, pvars, backoff, mvars, dpc>>

\* the transport fails the connect EventWorker with ConnectError when the
\* connect did not succeed
loopFailed(l) ==
    /\ lpc[l] = "failed"
    /\ connectOnDone(lowner[l], "mqtt.ConnectError")
    /\ lpc' = [lpc EXCEPT ![l] = "clean"]
    /\ UNCHANGED <<connected_flag, reconnect_flag, comm, usr_disconn, sock, tpc, ucall, retry,
                   lrc, lowner, calls, disc_since, late_attempt, late_connect, last_disc, still_conn>>
    /\ UNCHANGED <<qvars, hvars, evars, uvars, fvars, ivars, pvars, backoff, mvars, dpc>>

\* mqtt.Client.__loop: self.on_connect(), which is Client.__onConnect
loopOnConnect(l) ==
    /\ lpc[l] = "on_connect"
    /\ connected_flag' = TRUE
    /\ late_connect' = (late_connect \/ (disc_since /\ l \in late_attempt))
    /\ lpc' = [lpc EXCEPT ![l] = "signal"]
    /\ UNCHANGED <<reconnect_flag, connect_lock, comm, usr_disconn, sock, tpc, ucall, retry,
                   cw_done, cw_exc, lrc, lowner, calls, disc_since, late_attempt,
                   last_disc, still_conn>>
    /\ UNCHANGED <<qvars, hvars, evars, uvars, fvars, ivars, pvars, backoff, mvars, dpc>>

\* the transport completes the connect EventWorker on CONNACK success
loopSignal(l) ==
    /\ lpc[l] = "signal"
    /\ connectOnDone(lowner[l], "none")
    /\ lpc' = [lpc EXCEPT ![l] = "loop"]
    /\ UNCHANGED <<connected_flag, reconnect_flag, comm, usr_disconn, sock, tpc, ucall, retry,
                   lrc, lowner, calls, disc_since, late_attempt, late_connect, last_disc, still_conn>>
    /\ UNCHANGED <<qvars, hvars, evars, uvars, fvars, ivars, pvars, backoff, mvars, dpc>>

\* mqtt.Client.__loop: loop() returns an error code (the connection is lost,
\* paho has closed the socket); a pending user disconnect request is consumed
\* by the check that follows; the while ends and mqtt.disconnect() is skipped
loopLost(l) ==
    /\ lpc[l] = "loop"
    /\ sock
    /\ sock' = FALSE
    /\ lrc' = [lrc EXCEPT ![l] = MQTT_ERR_CONN_LOST]
    /\ usr_disconn' = FALSE
    /\ lpc' = [lpc EXCEPT ![l] = "clean"]
    /\ UNCHANGED <<connected_flag, reconnect_flag, connect_lock, comm, tpc, ucall, retry,
                   cw_done, cw_exc, lowner, calls, disc_since, late_attempt, late_connect,
                   last_disc, still_conn>>
    /\ UNCHANGED <<qvars, hvars, evars, uvars, fvars, ivars, pvars, backoff, mvars, dpc>>

\* mqtt.Client.__loop: loop() returns success and __usr_disconn is set: the
\* flag is reset, the while is left and rc = self.__mqtt.disconnect()
loopUsrDisconn(l) ==
    /\ lpc[l] = "loop"
    /\ usr_disconn
    /\ usr_disconn' = FALSE
    /\ sock' = FALSE
    /\ lrc' = [lrc EXCEPT ![l] = MQTT_ERR_SUCCESS]
    /\ lpc' = [lpc EXCEPT ![l] = "clean"]
    /\ UNCHANGED <<connected_flag, reconnect_flag, connect_lock, comm, tpc, ucall, retry,
                   cw_done, cw_exc, lowner, calls, disc_since, late_attempt, late_connect,
                   last_disc, still_conn>>
    /\ UNCHANGED <<qvars, hvars, evars, uvars, fvars, ivars, pvars, backoff, mvars, dpc>>

\* mqtt.Client.__loop: self.on_disconnect(rc), which is Client.__onDisconnect:
\* the flag is cleared and a reconnect thread (retry = 0) is started when
\* __reconnect_flag is set, whatever the code
loopOnDisconnect(l) ==
    /\ lpc[l] = "on_disconnect"
    /\ connected_flag' = FALSE
    /\ still_conn' = [u \in UserThreads |-> FALSE]
    /\ last_disc' = [fired |-> TRUE, code |-> lrc[l], connected |-> connected_flag',
                     requested |-> reconnect_flag, started |-> reconnect_flag]
    /\ IF reconnect_flag
       THEN \E k \in NewThread(ReconnOrder, tpc) :
                /\ tpc' = [tpc EXCEPT ![k] = "while"]
                /\ retry' = [retry EXCEPT ![k] = 0]
                /\ backoff' = [backoff EXCEPT ![k] = NoLoop]
       ELSE UNCHANGED <<tpc, retry, backoff>>
    /\ lpc' = [lpc EXCEPT ![l] = "ended"]
    /\ UNCHANGED <<reconnect_flag, connect_lock, comm, usr_disconn, sock, ucall,
                   cw_done, cw_exc, lrc, lowner, calls, disc_since, late_attempt, late_connect>>
    /\ UNCHANGED <<qvars, hvars, evars, uvars, fvars, ivars, pvars, mvars, dpc>>

-----------------------------------------------------------------------------
(* Transport pending map: mqtt.Client.subscribe / unsubscribe / publish,    *)
(* the ack callbacks and __cleanEvents                                      *)

\* threads of the integrator that call connectDevice, disconnectDevice,
\* emitEvent or sendResponse
OpThreads == {"o1", "o2"}

OpKinds == {"connectDevice", "disconnectDevice", "emitEvent", "sendResponse"}

\* mqtt.qos_map values
QosLevels == {0, 1, 2}

PublishKinds == {"emitEvent", "sendResponse"}

\* the workers registered in __events
Registered == {events[i].w : i \in 1..Len(events)}

\* self.__events[mid] = event_worker
EventsPut(ev, mid, w) ==
    IF \E i \in 1..Len(ev) : ev[i].mid = mid
    THEN [i \in 1..Len(ev) |-> IF ev[i].mid = mid THEN [mid |-> mid, w |-> w] ELSE ev[i]]
    ELSE Append(ev, [mid |-> mid, w |-> w])

\* del self.__events[mid]
EventsDel(ev, mid) == SelectSeq(ev, LAMBDA e : e.mid # mid)

\* a hook that leaves the exception of the worker as the transport stored it
OnDoneIdentity(kind, exception) == exception

\* on_done of __connectDevice, __disconnectDevice and __send: the exception
\* the worker holds afterwards
OnDone(kind, exception) ==
    IF exception = "none" THEN "none"
    ELSE IF kind = "connectDevice"
         THEN IF exception = "mqtt.SubscribeNotAllowedError" THEN "DeviceConnectNotAllowedError"
              ELSE IF exception = "mqtt.SubscribeError" THEN "DeviceConnectError"
              ELSE IF exception = "mqtt.NotConnectedError" THEN "NotConnectedError"
              ELSE exception
         ELSE IF kind = "disconnectDevice" THEN "DeviceDisconnectError"
         ELSE IF kind = "emitEvent" THEN "SendEventError"
         ELSE "SendResponseError"

\* what __connectDevice, __disconnectDevice and __send raise when the
\* transport call raises its own error
OpRaises(kind) ==
    IF kind = "connectDevice" THEN "DeviceConnectError"
    ELSE IF kind = "disconnectDevice" THEN "DeviceDisconnectError"
    ELSE IF kind = "emitEvent" THEN "SendEventError"
    ELSE "SendResponseError"

InitEvents ==
    /\ events = <<>>
    /\ next_mid = 1
    /\ inflight = {}
    /\ opc = [o \in OpThreads |-> "idle"]
    /\ op = [o \in OpThreads |-> [kind |-> "connectDevice", qos |-> 0, mid |-> 0]]
    /\ w_sig = [o \in OpThreads |-> 0]
    /\ w_exc = [o \in OpThreads |-> "none"]
    /\ clean_it = [l \in LoopThreads |-> [size |-> 0, pos |-> 0]]
    /\ acked = {}
    /\ at_clean = {}

\* EventWorker.start() when the target raised: the exception is stored in the
\* worker and the worker is signaled
workerRaised(o, exception) ==
    /\ w_exc' = [w_exc EXCEPT ![o] = exception]
    /\ w_sig' = [w_sig EXCEPT ![o] = w_sig[o] + 1]
    /\ opc' = [opc EXCEPT ![o] = "returned"]

\* __connectDevice / __disconnectDevice / __send up to the transport call:
\* NotConnectedError when the session is not connected, else on_done is
\* installed as the worker's usr_method
opCall(o, kind, qos) ==
    /\ opc[o] = "idle"
    /\ op' = [op EXCEPT ![o] = [kind |-> kind, qos |-> qos, mid |-> 0]]
    /\ IF ~connected_flag
       THEN workerRaised(o, "NotConnectedError")
       ELSE /\ opc' = [opc EXCEPT ![o] = "broker"]
            /\ UNCHANGED <<w_exc, w_sig>>
    /\ UNCHANGED <<events, next_mid, inflight, clean_it, acked, at_clean>>
    /\ UNCHANGED <<qvars, hvars, svars, uvars, fvars, ivars, pvars, backoff, mvars, dpc>>

\* mqtt.Client.subscribe / unsubscribe / publish with MQTT_ERR_NO_CONN
\* handled like every other error code
opBrokerNoConnAsError(o, rc_ok) ==
    /\ opc[o] = "broker"
    /\ IF ~sock \/ ~rc_ok
       THEN /\ workerRaised(o, OpRaises(op[o].kind))
            /\ UNCHANGED <<next_mid, inflight, op>>
       ELSE /\ op' = [op EXCEPT ![o].mid = next_mid]
            /\ next_mid' = next_mid + 1
            /\ inflight' = inflight \cup {next_mid}
            /\ opc' = [opc EXCEPT ![o] =
                          IF op[o].kind \in PublishKinds /\ ~(op[o].qos > 0) THEN "direct" ELSE "register"]
            /\ UNCHANGED <<w_exc, w_sig>>
    /\ UNCHANGED <<events, clean_it, acked, at_clean>>
    /\ UNCHANGED <<qvars, hvars, svars, uvars, fvars, ivars, pvars, backoff, mvars, dpc>>

\* mqtt.Client.subscribe / unsubscribe / publish: the paho call returns
\* MQTT_ERR_NO_CONN without a socket, another error code, or success with a
\* fresh message id
opBroker(o, rc_ok) ==
    /\ opc[o] = "broker"
    /\ IF ~sock
       THEN /\ workerRaised(o, "NotConnectedError")
            /\ UNCHANGED <<next_mid, inflight, op>>
       ELSE IF ~rc_ok
       THEN /\ workerRaised(o, OpRaises(op[o].kind))
            /\ UNCHANGED <<next_mid, inflight, op>>
       ELSE /\ op' = [op EXCEPT ![o].mid = next_mid]
            /\ next_mid' = next_mid + 1
            /\ inflight' = inflight \cup {next_mid}
            /\ opc' = [opc EXCEPT ![o] =
                          IF op[o].kind \in PublishKinds /\ ~(op[o].qos > 0) THEN "direct" ELSE "register"]
            /\ UNCHANGED <<w_exc, w_sig>>
    /\ UNCHANGED <<events, clean_it, acked, at_clean>>
    /\ UNCHANGED <<qvars, hvars, svars, uvars, fvars, ivars, pvars, backoff, mvars, dpc>>

\* self.__events[res[1]] = event_worker followed by a signal of the worker, as
\* the qos 0 branch of publish does
opRegisterSignals(o) ==
    /\ opc[o] = "register"
    /\ events' = EventsPut(events, op[o].mid, o)
    /\ w_exc' = [w_exc EXCEPT ![o] = OnDone(op[o].kind, w_exc[o])]
    /\ w_sig' = [w_sig EXCEPT ![o] = w_sig[o] + 1]
    /\ opc' = [opc EXCEPT ![o] = "returned"]
    /\ UNCHANGED <<next_mid, inflight, op, clean_it, acked, at_clean>>
    /\ UNCHANGED <<qvars, hvars, svars, uvars, fvars, ivars, pvars, backoff, mvars, dpc>>

\* self.__events[res[1]] = event_worker, after the paho call has returned
opRegister(o) ==
    /\ opc[o] = "register"
    /\ events' = EventsPut(events, op[o].mid, o)
    /\ opc' = [opc EXCEPT ![o] = "returned"]
    /\ UNCHANGED <<next_mid, inflight, op, w_sig, w_exc, clean_it, acked, at_clean>>
    /\ UNCHANGED <<qvars, hvars, svars, uvars, fvars, ivars, pvars, backoff, mvars, dpc>>

\* mqtt.Client.publish with qos 0: event_worker.usr_method(); event_worker.set()
opDirect(o) ==
    /\ opc[o] = "direct"
    /\ w_exc' = [w_exc EXCEPT ![o] = OnDone(op[o].kind, w_exc[o])]
    /\ w_sig' = [w_sig EXCEPT ![o] = w_sig[o] + 1]
    /\ opc' = [opc EXCEPT ![o] = "returned"]
    /\ UNCHANGED <<events, next_mid, inflight, op, clean_it, acked, at_clean>>
    /\ UNCHANGED <<qvars, hvars, svars, uvars, fvars, ivars, pvars, backoff, mvars, dpc>>

\* __publishClbk / __subscribeClbk / __unsubscribeClbk, called by loop() on
\* the loop thread for message id mid; denied: a SUBACK granting 128
loopAck(l, mid, denied) ==
    /\ lpc[l] = "loop"
    /\ mid \in inflight
    /\ inflight' = inflight \ {mid}
    /\ acked' = acked \cup {o \in OpThreads : op[o].mid = mid}
    /\ IF \E i \in 1..Len(events) : events[i].mid = mid
       THEN LET w == events[CHOOSE i \in 1..Len(events) : events[i].mid = mid].w
                e == IF op[w].kind = "connectDevice" /\ denied
                     THEN "mqtt.SubscribeNotAllowedError" ELSE w_exc[w]
            IN  /\ events' = EventsDel(events, mid)
                /\ w_exc' = [w_exc EXCEPT ![w] = OnDone(op[w].kind, e)]
                /\ w_sig' = [w_sig EXCEPT ![w] = w_sig[w] + 1]
       ELSE UNCHANGED <<events, w_exc, w_sig>>
    /\ UNCHANGED <<next_mid, opc, op, clean_it, at_clean>>
    /\ UNCHANGED <<qvars, hvars, svars, uvars, fvars, ivars, pvars, backoff, mvars, dpc>>

\* mqtt.Client.__cleanEvents: the for statement creates the iterator of
\* self.__events.values()
cleanBegin(l) ==
    /\ lpc[l] = "clean"
    /\ lpc' = [lpc EXCEPT ![l] = "cleaning"]
    /\ clean_it' = [clean_it EXCEPT ![l] = [size |-> Len(events), pos |-> 0]]
    /\ at_clean' = Registered
    /\ UNCHANGED <<events, next_mid, inflight, opc, op, w_sig, w_exc, acked>>
    /\ UNCHANGED <<connected_flag, reconnect_flag, connect_lock, comm, usr_disconn, sock, tpc, ucall,
                   retry, cw_done, cw_exc, lrc, lowner, calls, disc_since, late_attempt, late_connect,
                   last_disc, still_conn>>
    /\ UNCHANGED <<qvars, hvars, uvars, fvars, ivars, pvars, backoff, mvars, dpc>>

\* mqtt.Client.__cleanEvents: one step of the iterator. A dict whose size
\* changed since the iterator was created raises RuntimeError, which no except
\* clause of __loop catches: the loop thread dies. Otherwise the next worker
\* is failed with NotConnectedError, or the dict is cleared at the end
cleanNext(l) ==
    /\ lpc[l] = "cleaning"
    /\ IF Len(events) # clean_it[l].size
       THEN /\ lpc' = [lpc EXCEPT ![l] = "dead"]
            /\ UNCHANGED <<events, w_exc, w_sig, clean_it>>
       ELSE IF clean_it[l].pos < Len(events)
       THEN LET w == events[clean_it[l].pos + 1].w
            IN  /\ w_exc' = [w_exc EXCEPT ![w] = OnDone(op[w].kind, "mqtt.NotConnectedError")]
                /\ w_sig' = [w_sig EXCEPT ![w] = w_sig[w] + 1]
                /\ clean_it' = [clean_it EXCEPT ![l].pos = clean_it[l].pos + 1]
                /\ UNCHANGED <<events, lpc>>
       ELSE /\ events' = <<>>
            /\ lpc' = [lpc EXCEPT ![l] = "on_disconnect"]
            /\ UNCHANGED <<w_exc, w_sig, clean_it>>
    /\ UNCHANGED <<next_mid, inflight, opc, op, acked, at_clean>>
    /\ UNCHANGED <<connected_flag, reconnect_flag, connect_lock, comm, usr_disconn, sock, tpc, ucall,
                   retry, cw_done, cw_exc, lrc, lowner, calls, disc_since, late_attempt, late_connect,
                   last_disc, still_conn>>
    /\ UNCHANGED <<qvars, hvars, uvars, fvars, ivars, pvars, backoff, mvars, dpc>>

NextSession ==
    \/ \E u \in UserThreads, reconnect \in BOOLEAN, asynchronous \in BOOLEAN :
          connect(u, reconnect, asynchronous)
    \/ \E u \in UserThreads : connectJoin(u)
    \/ \E x \in UserThreads \cup ReconnThreads : connectWait(x)
    \/ disconnect
    \/ disconnectSet
    \/ \E x \in UserThreads \cup ReconnThreads : connectAcquire(x)
    \/ \E x \in UserThreads \cup ReconnThreads : connectCheck(x)
    \/ \E x \in UserThreads \cup ReconnThreads, conf_ok \in BOOLEAN : connectStart(x, conf_ok)
    \/ \E k \in ReconnThreads : reconnectWhile(k)
    \/ \E k \in ReconnThreads : reconnectIf(k)
    \/ \E k \in ReconnThreads : reconnectWake(k)
    \/ \E l \in LoopThreads, ok \in BOOLEAN : loopConnect(l, ok)
    \/ \E l \in LoopThreads : loopFailed(l)
    \/ \E l \in LoopThreads : loopOnConnect(l)
    \/ \E l \in LoopThreads : loopSignal(l)
    \/ \E l \in LoopThreads : loopLost(l)
    \/ \E l \in LoopThreads : loopUsrDisconn(l)
    \/ \E l \in LoopThreads : cleanBegin(l)
    \/ \E l \in LoopThreads : cleanNext(l)
    \/ \E l \in LoopThreads : loopOnDisconnect(l)

NextEvents ==
    \/ \E o \in OpThreads, kind \in OpKinds, q \in QosLevels : opCall(o, kind, q)
    \/ \E o \in OpThreads, rc_ok \in BOOLEAN : opBroker(o, rc_ok)
    \/ \E o \in OpThreads : opRegister(o)
    \/ \E o \in OpThreads : opDirect(o)
    \/ \E l \in LoopThreads, mid \in inflight, denied \in BOOLEAN : loopAck(l, mid, denied)
    \/ disconnect
    \/ disconnectSet
    \/ \E l \in LoopThreads : loopLost(l)
    \/ \E l \in LoopThreads : loopUsrDisconn(l)
    \/ \E l \in LoopThreads : cleanBegin(l)
    \/ \E l \in LoopThreads : cleanNext(l)
    \/ \E l \in LoopThreads : loopOnDisconnect(l)

-----------------------------------------------------------------------------
(* Helper functions: actions *)

\* the id __prefixDeviceID built for a topic comes back in a command topic
\* and __handleCommand passes it to __parseDeviceID
parsePrefixedDeviceID ==
    /\ util_in.fn = "deviceID"
    /\ ~util_out.done
    /\ util_out' = [done |-> TRUE, value |-> parseDeviceID(prefixDeviceID(util_in.device_id))]
    /\ UNCHANGED <<util_in, qvars, hvars, svars, evars, fvars, ivars, pvars, backoff, mvars, dpc>>

\* __hashDevices(devices)
hashDevicesCall ==
    /\ util_in.fn = "hashDevices"
    /\ ~util_out.done
    /\ util_out' = [done |-> TRUE, value |-> hashDevices(util_in.devices, util_in.order)]
    /\ UNCHANGED <<util_in, qvars, hvars, svars, evars, fvars, ivars, pvars, backoff, mvars, dpc>>

\* calcDuration(min_duration, max_duration, retry_num, factor)
calcDurationCall ==
    /\ util_in.fn = "calcDuration"
    /\ ~util_out.done
    /\ util_out' = [done |-> TRUE,
                    result |-> calcDuration(util_in.min_duration, util_in.max_duration,
                                            util_in.retry_num, util_in.factor)]
    /\ UNCHANGED <<util_in, qvars, hvars, svars, evars, fvars, ivars, pvars, backoff, mvars, dpc>>

\* the helper functions, each applied once to the arguments drawn initially
NextUtil ==
    \/ parsePrefixedDeviceID
    \/ hashDevicesCall
    \/ calcDurationCall

-----------------------------------------------------------------------------
(* Reconnect backoff: one reconnect thread against a broker that refuses *)

\* Client.__reconnect: one pass of the while loop whose connect attempt the
\* broker refuses.  Both flags are read, retry is incremented, calcDuration
\* gives the time to sleep, the connect worker is started and future.wait()
\* returns with the worker failed.  An exception of calcDuration leaves
\* __reconnect and ends the thread.  The loop thread of the attempt and the
\* notification it delivers belong to other threads and are left out.
reconnectPass(k) ==
    /\ tpc[k] = "while"
    /\ ~connected_flag
    /\ reconnect_flag
    /\ retry[k] < MaxPasses
    /\ retry' = [retry EXCEPT ![k] = retry[k] + 1]
    /\ IF retry[k] + 1 > 0
       THEN LET result == reconnectDelay(retry[k] + 1)
            IN  /\ util_in' = [fn |-> "calcDuration", min_duration |-> reconn_delay_min,
                               max_duration |-> reconn_delay_max, retry_num |-> retry[k] + 1,
                               factor |-> reconn_delay_factor]
                /\ util_out' = [done |-> TRUE, result |-> result]
                /\ IF result.raised = "none"
                   THEN /\ backoff' = [backoff EXCEPT ![k] = [start |-> backoff[k].start,
                                           attempts |-> backoff[k].attempts + 1,
                                           n |-> retry[k] + 1, duration |-> result.value]]
                        /\ cw_done' = [cw_done EXCEPT ![k] = TRUE]
                        /\ cw_exc' = [cw_exc EXCEPT ![k] = "ConnectError"]
                        /\ UNCHANGED tpc
                   ELSE /\ tpc' = [tpc EXCEPT ![k] = "dead"]
                        /\ UNCHANGED <<cw_done, cw_exc, backoff>>
       ELSE /\ backoff' = [backoff EXCEPT ![k].attempts = backoff[k].attempts + 1]
            /\ cw_done' = [cw_done EXCEPT ![k] = TRUE]
            /\ cw_exc' = [cw_exc EXCEPT ![k] = "ConnectError"]
            /\ UNCHANGED <<tpc, util_in, util_out>>
    /\ UNCHANGED <<connected_flag, reconnect_flag, connect_lock, comm, usr_disconn, sock, ucall,
                   lpc, lrc, lowner, calls, disc_since, late_attempt, late_connect,
                   last_disc, still_conn>>
    /\ UNCHANGED <<qvars, hvars, evars, fvars, ivars, pvars, mvars, dpc>>

\* the reconnect threads against a broker that refuses every attempt
NextBackoff == \E k \in ReconnThreads : reconnectPass(k)

-----------------------------------------------------------------------------
(* Future: one worker and the callers of Future.result *)

\* threads that call result() on the future
FutureCallers == {"c1", "c2"}

\* what the task of the worker gives: a value, or an exception (result None)
TaskOutcomes == {[exception |-> "none", result |-> "value"],
                 [exception |-> "TaskError", result |-> "none"]}

\* self.__worker.done, read as true whatever the worker holds
WorkerDoneAlways(worker) == TRUE

\* self.__worker.done
WorkerDone(worker) == worker.done

\* a caller outside result()
NotCalling == [at |-> "idle", was_done |-> FALSE]

\* a worker that has been started: nothing recorded, not done
InitFuture ==
    /\ f_worker = [done |-> FALSE, recorded |-> FALSE, exception |-> "none", result |-> "none"]
    /\ f_pc = [c \in FutureCallers |-> NotCalling]
    /\ f_calls = <<>>

\* the worker records the result or the exception of its task
workerRecord(outcome) ==
    /\ ~f_worker.recorded
    /\ f_worker' = [done |-> FALSE, recorded |-> TRUE,
                    exception |-> outcome.exception, result |-> outcome.result]
    /\ UNCHANGED <<f_pc, f_calls>>
    /\ UNCHANGED <<qvars, hvars, svars, evars, uvars, ivars, pvars, backoff, mvars, dpc>>

\* the worker becomes done and releases its waiters
workerSet ==
    /\ f_worker.recorded
    /\ ~f_worker.done
    /\ f_worker' = [f_worker EXCEPT !.done = TRUE]
    /\ UNCHANGED <<f_pc, f_calls>>
    /\ UNCHANGED <<qvars, hvars, svars, evars, uvars, ivars, pvars, backoff, mvars, dpc>>

\* Future.result: if not self.__worker.done: raise FutureNotDoneError
futureResult(c) ==
    /\ f_pc[c].at = "idle"
    /\ Len(f_calls) + Cardinality({d \in FutureCallers : f_pc[d].at # "idle"}) < MaxResultCalls
    /\ IF ~WorkerDone(f_worker)
       THEN /\ f_calls' = Append(f_calls, [was_done |-> f_worker.done,
                                           raised |-> "FutureNotDoneError", value |-> "none"])
            /\ UNCHANGED f_pc
       ELSE /\ f_pc' = [f_pc EXCEPT ![c] = [at |-> "exception", was_done |-> f_worker.done]]
            /\ UNCHANGED f_calls
    /\ UNCHANGED f_worker
    /\ UNCHANGED <<qvars, hvars, svars, evars, uvars, ivars, pvars, backoff, mvars, dpc>>

\* Future.result: if self.__worker.exception: raise self.__worker.exception
futureResultException(c) ==
    /\ f_pc[c].at = "exception"
    /\ IF f_worker.exception # "none"
       THEN /\ f_calls' = Append(f_calls, [was_done |-> f_pc[c].was_done,
                                           raised |-> f_worker.exception, value |-> "none"])
            /\ f_pc' = [f_pc EXCEPT ![c] = NotCalling]
       ELSE /\ f_pc' = [f_pc EXCEPT ![c].at = "return"]
            /\ UNCHANGED f_calls
    /\ UNCHANGED f_worker
    /\ UNCHANGED <<qvars, hvars, svars, evars, uvars, ivars, pvars, backoff, mvars, dpc>>

\* Future.result: return self.__worker.result
futureResultReturn(c) ==
    /\ f_pc[c].at = "return"
    /\ f_calls' = Append(f_calls, [was_done |-> f_pc[c].was_done,
                                   raised |-> "none", value |-> f_worker.result])
    /\ f_pc' = [f_pc EXCEPT ![c] = NotCalling]
    /\ UNCHANGED f_worker
    /\ UNCHANGED <<qvars, hvars, svars, evars, uvars, ivars, pvars, backoff, mvars, dpc>>

\* the worker against the callers of result()
NextFuture ==
    \/ \E outcome \in TaskOutcomes : workerRecord(outcome)
    \/ workerSet
    \/ \E c \in FutureCallers : futureResult(c)
    \/ \E c \in FutureCallers : futureResultException(c)
    \/ \E c \in FutureCallers : futureResultReturn(c)

-----------------------------------------------------------------------------
(* Instantiation: threads that call Client() *)

\* threads that instantiate Client
InstThreads == {"i1", "i2"}

\* Client has been instantiated once, by the main thread
InitSingleton ==
    /\ instances = 1
    /\ ipc = [t \in InstThreads |-> "idle"]
    /\ inew = [t \in InstThreads |-> 0]
    /\ constructed = 1
    /\ returned = <<1>>

\* Singleton.__call__: if cls not in cls._instances
singletonCall(t) ==
    /\ ipc[t] = "idle"
    /\ Len(returned) + Cardinality({u \in InstThreads : ipc[u] # "idle"}) < MaxInstantiations
    /\ ipc' = [ipc EXCEPT ![t] = IF instances = 0 THEN "construct" ELSE "return"]
    /\ UNCHANGED <<instances, inew, constructed, returned>>
    /\ UNCHANGED <<qvars, hvars, svars, evars, uvars, fvars, pvars, backoff, mvars, dpc>>

\* Singleton.__call__: super(Singleton, cls).__call__(*args, **kwargs), which
\* creates an object and runs Client.__init__ on it
singletonConstruct(t) ==
    /\ ipc[t] = "construct"
    /\ constructed' = constructed + 1
    /\ inew' = [inew EXCEPT ![t] = constructed + 1]
    /\ ipc' = [ipc EXCEPT ![t] = "store"]
    /\ UNCHANGED <<instances, returned>>
    /\ UNCHANGED <<qvars, hvars, svars, evars, uvars, fvars, pvars, backoff, mvars, dpc>>

\* Singleton.__call__: cls._instances[cls] = the object constructed
singletonStore(t) ==
    /\ ipc[t] = "store"
    /\ instances' = inew[t]
    /\ inew' = [inew EXCEPT ![t] = 0]
    /\ ipc' = [ipc EXCEPT ![t] = "return"]
    /\ UNCHANGED <<constructed, returned>>
    /\ UNCHANGED <<qvars, hvars, svars, evars, uvars, fvars, pvars, backoff, mvars, dpc>>

\* Singleton.__call__: return cls._instances[cls]
singletonReturn(t) ==
    /\ ipc[t] = "return"
    /\ returned' = Append(returned, instances)
    /\ ipc' = [ipc EXCEPT ![t] = "idle"]
    /\ UNCHANGED <<instances, inew, constructed>>
    /\ UNCHANGED <<qvars, hvars, svars, evars, uvars, fvars, pvars, backoff, mvars, dpc>>

\* the instantiating threads
NextSingleton ==
    \/ \E t \in InstThreads : singletonCall(t)
    \/ \E t \in InstThreads : singletonConstruct(t)
    \/ \E t \in InstThreads : singletonStore(t)
    \/ \E t \in InstThreads : singletonReturn(t)

-----------------------------------------------------------------------------
(* Device pool: DeviceManager.add, delete, get, clear and devices *)

\* threads that call the DeviceManager
MgrThreads == {"m1", "m2"}

\* local device ids
PoolIds == {"a", "b"}

\* Device objects: two objects with the id "a", one with the id "b"
PoolDevices == {[id |-> "a", obj |-> 1], [id |-> "a", obj |-> 2], [id |-> "b", obj |-> 3]}

\* the calls: the method, its argument and whether the argument has the type
\* the method checks for
MgrCalls ==
    {[kind |-> "add", id |-> d.id, obj |-> d.obj, typed |-> TRUE] : d \in PoolDevices}
        \cup {[kind |-> "add", id |-> "a", obj |-> 0, typed |-> FALSE]}
        \cup {[kind |-> k, id |-> i, obj |-> 0, typed |-> TRUE] : k \in {"delete", "get"}, i \in PoolIds}
        \cup {[kind |-> "get", id |-> "a", obj |-> 0, typed |-> FALSE]}
        \cup {[kind |-> k, id |-> "a", obj |-> 0, typed |-> TRUE] : k \in {"clear", "devices"}}

NoMgrOut == [done |-> FALSE, raised |-> "none", value |-> <<>>, at_view |-> <<>>]

InitManager ==
    /\ device_pool = <<>>
    /\ dm_lock = "free"
    /\ mpc = [t \in MgrThreads |-> "idle"]
    /\ mop = [t \in MgrThreads |-> [kind |-> "clear", id |-> "a", obj |-> 0, typed |-> TRUE]]
    /\ mout = [t \in MgrThreads |-> NoMgrOut]
    /\ mcalls = 0

\* device_id in self.__device_pool
PoolHas(pool, id) == \E i \in 1..Len(pool) : pool[i].id = id

\* self.__device_pool[device.id] = device without the membership test
PoolPut(pool, id, obj) ==
    IF PoolHas(pool, id)
    THEN [i \in 1..Len(pool) |-> IF pool[i].id = id THEN [id |-> id, obj |-> obj] ELSE pool[i]]
    ELSE Append(pool, [id |-> id, obj |-> obj])

\* if device.id not in self.__device_pool: self.__device_pool[device.id] = device
PoolAdd(pool, id, obj) ==
    IF PoolHas(pool, id) THEN pool ELSE Append(pool, [id |-> id, obj |-> obj])

\* del self.__device_pool[device], KeyError caught
PoolDel(pool, id) == SelectSeq(pool, LAMBDA e : e.id # id)

\* tuple(self.__device_pool.values())
PoolValues(pool) == [i \in 1..Len(pool) |-> pool[i].obj]

\* a method is called: the type check of the argument raises TypeError before
\* the lock is touched
mgrCall(t, call) ==
    /\ mpc[t] = "idle"
    /\ mcalls < MaxMgrCalls
    /\ mcalls' = mcalls + 1
    /\ mop' = [mop EXCEPT ![t] = call]
    /\ IF call.typed
       THEN /\ mpc' = [mpc EXCEPT ![t] = "acquire"]
            /\ mout' = [mout EXCEPT ![t] = NoMgrOut]
       ELSE /\ mout' = [mout EXCEPT ![t] = [NoMgrOut EXCEPT !.done = TRUE, !.raised = "TypeError"]]
            /\ UNCHANGED mpc
    /\ UNCHANGED <<device_pool, dm_lock>>
    /\ UNCHANGED <<qvars, hvars, svars, evars, uvars, fvars, ivars, pvars, backoff, dpc>>

\* self.__lock.acquire()
mgrAcquire(t) ==
    /\ mpc[t] = "acquire"
    /\ dm_lock = "free"
    /\ dm_lock' = t
    /\ mpc' = [mpc EXCEPT ![t] = "body"]
    /\ UNCHANGED <<device_pool, mop, mout, mcalls>>
    /\ UNCHANGED <<qvars, hvars, svars, evars, uvars, fvars, ivars, pvars, backoff, dpc>>

\* the statements between acquire() and release() and the release: add
\* stores a device whose id is absent, delete removes an entry, get reads one
\* or re-raises KeyError after the release, clear empties the pool, devices
\* takes the view self.__device_pool.values()
mgrBody(t) ==
    /\ mpc[t] = "body"
    /\ dm_lock' = "free"
    /\ device_pool' = CASE mop[t].kind = "add" -> PoolAdd(device_pool, mop[t].id, mop[t].obj)
                        [] mop[t].kind = "delete" -> PoolDel(device_pool, mop[t].id)
                        [] mop[t].kind = "clear" -> <<>>
                        [] OTHER -> device_pool
    /\ mout' = [mout EXCEPT ![t] =
          CASE mop[t].kind = "get" ->
                  IF PoolHas(device_pool, mop[t].id)
                  THEN [NoMgrOut EXCEPT !.done = TRUE,
                           !.value = <<device_pool[CHOOSE i \in 1..Len(device_pool) :
                                                      device_pool[i].id = mop[t].id].obj>>]
                  ELSE [NoMgrOut EXCEPT !.done = TRUE, !.raised = "KeyError"]
            [] mop[t].kind = "devices" -> [NoMgrOut EXCEPT !.at_view = PoolValues(device_pool)]
            [] OTHER -> [NoMgrOut EXCEPT !.done = TRUE]]
    /\ mpc' = [mpc EXCEPT ![t] = IF mop[t].kind = "devices" THEN "copy" ELSE "idle"]
    /\ UNCHANGED <<mop, mcalls>>
    /\ UNCHANGED <<qvars, hvars, svars, evars, uvars, fvars, ivars, pvars, backoff, dpc>>

\* return tuple(devices), after the release: the view shows the pool as it is
\* when tuple() reads it; tuple() of a dict view is one step of the interpreter
mgrCopy(t) ==
    /\ mpc[t] = "copy"
    /\ mout' = [mout EXCEPT ![t].done = TRUE, ![t].value = PoolValues(device_pool)]
    /\ mpc' = [mpc EXCEPT ![t] = "idle"]
    /\ UNCHANGED <<device_pool, dm_lock, mop, mcalls>>
    /\ UNCHANGED <<qvars, hvars, svars, evars, uvars, fvars, ivars, pvars, backoff, dpc>>

\* the threads of the integrator that work on the device pool
NextManager ==
    \/ \E t \in MgrThreads, call \in MgrCalls : mgrCall(t, call)
    \/ \E t \in MgrThreads : mgrAcquire(t)
    \/ \E t \in MgrThreads : mgrBody(t)
    \/ \E t \in MgrThreads : mgrCopy(t)

-----------------------------------------------------------------------------
(* Specifications *)

Init == InitQueue /\ InitHub /\ InitPlatform /\ InitManager /\ InitSession /\ InitEvents /\ InitUtil /\ InitFuture /\ InitSingleton

\* the state after construction with no hub id configured
InitNoHubId == Init /\ hub_id = ""

\* the state after a synchronous connect(reconnect=False) by u1 has succeeded
InitConnected ==
    /\ InitQueue /\ InitHub /\ InitPlatform /\ InitManager /\ InitEvents /\ InitUtil /\ InitFuture /\ InitSingleton
    /\ hub_id = ""
    /\ connected_flag = TRUE
    /\ reconnect_flag = FALSE
    /\ connect_lock = "free"
    /\ comm = TRUE
    /\ usr_disconn = FALSE
    /\ dpc = "idle"
    /\ sock = TRUE
    /\ tpc = [x \in UserThreads \cup ReconnThreads |-> IF x \in UserThreads THEN "idle" ELSE "unused"]
    /\ ucall = [u \in UserThreads |-> IF u = "u1"
                    THEN [active |-> TRUE, reconnect |-> FALSE, asynchronous |-> FALSE,
                          thread |-> "none", att0 |-> 0, flag0 |-> FALSE]
                    ELSE NoCall]
    /\ retry = [k \in ReconnThreads |-> 0]
    /\ cw_done = [x \in UserThreads \cup ReconnThreads |-> TRUE]
    /\ cw_exc = [x \in UserThreads \cup ReconnThreads |-> "none"]
    /\ lpc = [l \in LoopThreads |-> IF l = "l1" THEN "loop" ELSE "unused"]
    /\ lrc = [l \in LoopThreads |-> MQTT_ERR_SUCCESS]
    /\ lowner = [l \in LoopThreads |-> IF l = "l1" THEN "u1" ELSE "none"]
    /\ calls = 1
    /\ disc_since = FALSE
    /\ late_attempt = {}
    /\ late_connect = FALSE
    /\ last_disc = NoDisc
    /\ still_conn = [u \in UserThreads |-> FALSE]
    /\ backoff = [k \in ReconnThreads |-> NoLoop]

\* the arguments of the helper functions
UtilInputs == DeviceIdInputs \cup HashInputs \cup DurationInputs

\* the state after construction, with a helper function about to be applied
InitUtilInputs ==
    /\ InitQueue /\ InitHub /\ InitPlatform /\ InitManager /\ InitSession /\ InitEvents /\ InitFuture /\ InitSingleton
    /\ hub_id = ""
    /\ util_in \in UtilInputs
    /\ util_out = [done |-> FALSE]

\* the state after connect(reconnect=True, asynchronous=True) by u1 has
\* connected at the first attempt of k1 and the connection has been lost:
\* __onDisconnect has started the reconnect thread k2 with retry = 0
InitReconnecting ==
    /\ InitQueue /\ InitHub /\ InitPlatform /\ InitManager /\ InitEvents /\ InitUtil /\ InitFuture /\ InitSingleton
    /\ hub_id = ""
    /\ connected_flag = FALSE
    /\ reconnect_flag = TRUE
    /\ connect_lock = "free"
    /\ comm = TRUE
    /\ usr_disconn = FALSE
    /\ dpc = "idle"
    /\ sock = FALSE
    /\ tpc = [x \in UserThreads \cup ReconnThreads |->
                 IF x \in UserThreads THEN "idle" ELSE IF x = "k1" THEN "ended" ELSE "while"]
    /\ ucall = [u \in UserThreads |-> IF u = "u1"
                    THEN [active |-> TRUE, reconnect |-> TRUE, asynchronous |-> TRUE,
                          thread |-> "k1", att0 |-> 0, flag0 |-> FALSE]
                    ELSE NoCall]
    /\ retry = [k \in ReconnThreads |-> 0]
    /\ cw_done = [x \in UserThreads \cup ReconnThreads |-> TRUE]
    /\ cw_exc = [x \in UserThreads \cup ReconnThreads |-> "none"]
    /\ lpc = [l \in LoopThreads |-> IF l = "l1" THEN "ended" ELSE "unused"]
    /\ lrc = [l \in LoopThreads |-> IF l = "l1" THEN MQTT_ERR_CONN_LOST ELSE MQTT_ERR_SUCCESS]
    /\ lowner = [l \in LoopThreads |-> IF l = "l1" THEN "k1" ELSE "none"]
    /\ calls = 1
    /\ disc_since = FALSE
    /\ late_attempt = {}
    /\ late_connect = FALSE
    /\ last_disc = [fired |-> TRUE, code |-> MQTT_ERR_CONN_LOST, connected |-> FALSE,
                    requested |-> TRUE, started |-> TRUE]
    /\ still_conn = [u \in UserThreads |-> FALSE]
    /\ backoff = [k \in ReconnThreads |->
                     IF k = "k1" THEN [start |-> -1, attempts |-> 1, n |-> 0, duration |-> 0] ELSE NoLoop]

\* the process before Client is instantiated: Singleton._instances is empty
InitUninstantiated ==
    /\ InitQueue /\ InitHub /\ InitPlatform /\ InitManager /\ InitSession /\ InitEvents /\ InitUtil /\ InitFuture
    /\ hub_id = ""
    /\ instances = 0
    /\ ipc = [t \in InstThreads |-> "idle"]
    /\ inew = [t \in InstThreads |-> 0]
    /\ constructed = 0
    /\ returned = <<>>

\* command ingress: the loop thread's __handleCommand against receiveCommand callers
SpecQueue == Init /\ [][NextQueue]_vars

\* hub reconciliation: initHub, syncHub threads and addDevice / deleteDevice threads
SpecHub == Init /\ [][NextHub]_vars

\* hub reconciliation where every thread that has begun a call goes on running
\* and every request returns
SpecHubLive ==
    /\ InitNoHubId
    /\ [][NextHubLive]_vars
    /\ \A s \in HubSyncCallers : WF_vars(SyncStep(s))
    /\ \A t \in DeviceThreads : WF_vars(DeviceStep(t))

\* session: connect / disconnect callers, reconnect threads and loop threads
SpecSession == InitNoHubId /\ [][NextSession]_vars

\* pending map of one established session: operation threads against the
\* loop thread's ack callbacks, the end of the session and its cleanup
SpecEvents == InitConnected /\ [][NextEvents]_vars

\* hub life cycle: initHub calls and syncHub threads
SpecSync == Init /\ [][NextSync]_vars

\* device registration: the calls for one Device object
SpecDevice == InitNoHubId /\ [][NextDevice]_vars

\* helper functions: one application to each argument tuple
SpecUtil == InitUtilInputs /\ [][NextUtil]_vars

\* reconnect backoff: the passes of a reconnect loop while the broker refuses
SpecBackoff == InitReconnecting /\ [][NextBackoff]_vars

\* a future: its worker against the callers of result()
SpecFuture == InitNoHubId /\ [][NextFuture]_vars

\* device pool: threads calling the DeviceManager
SpecManager == InitNoHubId /\ [][NextManager]_vars

\* instantiation: threads calling Client() in a process that holds no instance
SpecSingleton == InitUninstantiated /\ [][NextSingleton]_vars

-----------------------------------------------------------------------------
(* Command ingress: properties *)

\* no receiveCommand call has been made
NoReceiveCall == delivered = <<>> /\ \A r \in Receivers : recv_exc[r] = "none"

\* the commands receiveCommand returned, in the order it returned them
DeliveredCmds == [i \in 1..Len(delivered) |-> delivered[i][2]]

\* C5: for every capacity C, after C+1 well-formed inbound commands and no
\* receiveCommand call the queue holds exactly the first C commands in arrival
\* order and the (C+1)-th has been dropped
C5_QueueDropsOnFull ==
    \A C \in 1..(MaxCmds - 1) :
        (NoReceiveCall /\ Len(arrived) = C + 1) =>
            (cmd_queue = SubSeq(arrived, 1, C) /\ dropped = <<arrived[C + 1]>>)

\* C6: __handleCommand returns normally for every inbound message: no exception
\* leaves it on the transport loop thread
C6_HandleCommandNeverRaises == loop_exc = "none"

\* C7: the commands returned so far followed by the commands still queued are
\* exactly the commands enqueued, in enqueue order: receiveCommand is FIFO and
\* every enqueued command is returned by at most one call, and by one once it
\* has left the queue
C7_FifoExactlyOnce == DeliveredCmds \o cmd_queue = enqueued

\* C7 witness: two different commands for the same device have been returned,
\* to two different receivers, while a third is still queued
C7_Witness ==
    /\ Len(delivered) = 2
    /\ delivered[1][1] # delivered[2][1]
    /\ delivered[1][2].device = delivered[2][2].device
    /\ delivered[1][2] # delivered[2][2]
    /\ Len(cmd_queue) = 1

-----------------------------------------------------------------------------
(* Hub reconciliation: properties *)

\* C3: a device call that started while a syncHub was running on an
\* initialized hub has no HTTP request in flight as long as that syncHub has
\* not set hubSyncEvent again
C3_SyncExcludesLaterCalls ==
    \A t \in DeviceThreads : \A s \in started_during[t] :
        SyncRunning(s) => hpc[t] \notin HttpInFlightPcs

\* C4: when syncHub has issued its hub GET, the workers list was empty at that
\* moment and every asynchronous device call started before the syncHub call
\* has ended
C4_SyncJoinsEarlierCalls ==
    \A s \in SyncThreads :
        at_get[s] # "none" =>
            (at_get[s] = "empty" /\ \A t \in before_sync[s] : hpc[t] = "done")

-----------------------------------------------------------------------------
(* Transport pending map: properties *)

\* the transport session has ended: its loop thread is past __cleanEvents or died in it
SessionEnded ==
    /\ \A l \in LoopThreads : lpc[l] \in {"unused", "on_disconnect", "ended", "dead"}
    /\ \E l \in LoopThreads : lpc[l] # "unused"

\* C1: every EventWorker the transport accepted is signaled exactly once: no
\* worker is signaled twice, and a worker whose transport call has returned is
\* signaled once its ack callback has run or the session has ended
C1_SignaledExactlyOnce ==
    \A o \in OpThreads :
        /\ w_sig[o] <= 1
        /\ (opc[o] = "returned" /\ op[o].mid # 0 /\ (o \in acked \/ SessionEnded)) => w_sig[o] = 1

\* C2: when the session has ended, every worker that was in the pending map
\* when the cleanup began is completed, is no longer in the map, and its
\* future fails with NotConnectedError
C2_CleanupFailsWithNotConnected ==
    SessionEnded =>
        \A o \in at_clean :
            /\ o \notin Registered
            /\ FutureResult(w_sig[o] > 0, w_exc[o]) = "NotConnectedError"

-----------------------------------------------------------------------------
(* Session: properties *)

\* Future.result() of the latest connect() call of a user thread
ConnectResult(u) ==
    IF ucall[u].reconnect
    THEN FutureResult(tpc[ucall[u].thread] = "ended", "none")
    ELSE FutureResult(cw_done[u], cw_exc[u])

\* C8: a connect() issued while the session is connected, and completed while
\* it still is, has started no transport connect attempt and has failed with
\* "already connected" (RuntimeError), whatever reconnect and asynchronous are
C8_ConnectWhileConnectedFails ==
    \A u \in UserThreads :
        (ucall[u].active /\ still_conn[u] /\ ConnectResult(u) # "FutureNotDoneError") =>
            (Attempts = ucall[u].att0 /\ ConnectResult(u) = "RuntimeError")

\* C9: after disconnect() has cleared reconnect_flag and until the next
\* connect() call, no reconnect thread that leaves its sleep goes on to start
\* a transport connect, and the session does not become connected through one
C9_NoAttemptAfterDisconnect == late_attempt \cap LoopThreads = {} /\ ~late_connect

\* C10: __onDisconnect(code, reason) leaves the session not connected and
\* starts a reconnect thread if and only if code > 0 and reconnect is requested
C10_ReconnectOnlyOnError ==
    last_disc.fired =>
        /\ ~last_disc.connected
        /\ last_disc.started <=> (last_disc.code > 0 /\ last_disc.requested)

-----------------------------------------------------------------------------
(* Helper functions: properties *)

\* the helper function fn has been applied
Applied(fn) == util_in.fn = fn /\ util_out.done

\* C14: for every device id d, stripping the prefix from the prefixed id
\* gives d back: parseDeviceID(prefixDeviceID(d)) = d, also when d contains
\* the text "{prefix}-"
C14_PrefixRoundTrip == Applied("deviceID") => util_out.value = util_in.device_id

\* C15: hashDevices gives the same digest for every permutation of the list
C15_HashOrderIndependent ==
    Applied("hashDevices") =>
        \A p \in Permutations(1..Len(util_in.devices)) :
            hashDevices([i \in 1..Len(util_in.devices) |-> util_in.devices[p[i]]], util_in.order)
                = util_out.value

\* C15 witness: a list of two devices has been hashed to the digest of their
\* digests in the other order
C15_Witness ==
    /\ Applied("hashDevices")
    /\ Len(util_in.devices) = 2
    /\ LET first == util_in.devices[1].id \o util_in.devices[1].name
           second == util_in.devices[2].id \o util_in.devices[2].name
       IN  first # second /\ util_out.value = sha1(<<sha1(second), sha1(first)>> )

\* a device of the hashed list replaced by another device
ChangedDevices(i, d) == [util_in.devices EXCEPT ![i] = d]

\* C16 (as claimed): every change of the id or the name of a device of the
\* list changes the digest, changes that move characters between the end of
\* the id and the start of the name included
C16_HashSensitive ==
    Applied("hashDevices") =>
        \A i \in 1..Len(util_in.devices) : \A d \in Devices :
            d # util_in.devices[i] =>
                hashDevices(ChangedDevices(i, d), util_in.order) # util_out.value

\* C16 (amended): every change of the id or the name of a device that changes
\* the concatenation of its id and name changes the digest
C16_HashSensitiveToConcatenation ==
    Applied("hashDevices") =>
        \A i \in 1..Len(util_in.devices) : \A d \in Devices :
            d.id \o d.name # util_in.devices[i].id \o util_in.devices[i].name =>
                hashDevices(ChangedDevices(i, d), util_in.order) # util_out.value

\* C16 witness: a list has been hashed in which the name of a device can be
\* changed with its id kept
C16_Witness ==
    /\ Applied("hashDevices")
    /\ \E i \in 1..Len(util_in.devices) : \E d \in Devices :
           d.id = util_in.devices[i].id /\ d.name # util_in.devices[i].name

\* v = k * 10^(m-1) for some 1 <= k <= 9 and m >= 1
OneSignificantDigit(v) == \E k \in 1..9 : \E m \in 1..9 : v = k * Pow(10, m - 1)

\* calcDuration for the next retry_num, the other arguments kept
NextDuration == calcDuration(util_in.min_duration, util_in.max_duration,
                             util_in.retry_num + 1, util_in.factor)

\* C17: for all min, max, factor >= 1 and n >= 1, calcDuration returns a
\* value that is not above the value for n + 1, the value for n + 1 is max
\* once the value for n is max, and every value returned is k*10^(m-1) with
\* 1<=k<=9
C17_BackoffLaw ==
    Applied("calcDuration") =>
        /\ util_out.result.raised = "none"
        /\ NextDuration.raised = "none"
        /\ util_out.result.value <= NextDuration.value
        /\ util_out.result.value = util_in.max_duration => NextDuration.value = util_in.max_duration
        /\ OneSignificantDigit(util_out.result.value)

-----------------------------------------------------------------------------
(* Reconnect backoff: properties *)

\* C11: while reconnect is enabled a failed connect attempt never ends the
\* reconnect loop: the loop ends only where it reads the session connected or
\* reconnect disabled, no pass that follows a failed attempt aborts it
C11_FailedAttemptKeepsLoop == \A k \in ReconnThreads : tpc[k] # "dead"

-----------------------------------------------------------------------------
(* Future and instantiation: properties *)

\* C18: result() fails with FutureNotDone whenever the worker is not done;
\* once the worker is done it raises the stored exception if one was
\* recorded and otherwise returns the stored value, and the calls made then
\* all give the same outcome
C18_FutureResult ==
    /\ \A i \in 1..Len(f_calls) :
           IF f_calls[i].was_done
           THEN /\ f_calls[i].raised = f_worker.exception
                /\ f_calls[i].raised = "none" => f_calls[i].value = f_worker.result
           ELSE f_calls[i].raised = "FutureNotDoneError"
    /\ \A i, j \in 1..Len(f_calls) :
           f_calls[i].was_done /\ f_calls[j].was_done => f_calls[i] = f_calls[j]

\* C18 witness: result() has failed before the worker was done and has
\* raised the stored exception twice afterwards
C18_Witness ==
    /\ Len(f_calls) = 3
    /\ ~f_calls[1].was_done
    /\ f_calls[2].was_done /\ f_calls[2].raised = "TaskError"
    /\ f_calls[3].was_done

\* C13: all instantiations of Client, from any threads, return the same
\* instance, and Client.__init__ runs at most once
C13_SingleInstance ==
    /\ \A i, j \in 1..Len(returned) : returned[i] = returned[j]
    /\ constructed <= 1

-----------------------------------------------------------------------------
(* Session and pending map: further properties *)

\* C12: after disconnect() on a connected session the loop thread stops with
\* the pending workers completed, onDisconnect fired with code 0 and the
\* session disconnected: a loop thread that left its loop on a user
\* disconnect and has stopped has done all of that
C12_UserDisconnectEndsSession ==
    \A l \in LoopThreads :
        (lpc[l] \in {"ended", "dead"} /\ lrc[l] = MQTT_ERR_SUCCESS /\ disc_since) =>
            /\ lpc[l] = "ended"
            /\ last_disc.fired
            /\ last_disc.code = 0
            /\ ~connected_flag
            /\ \A o \in at_clean : w_sig[o] >= 1

\* C19: an operation issued while the session is not connected, or whose
\* transport call finds the connection lost after the flag check passed,
\* fails with NotConnectedError and hands nothing to the broker
C19_NotConnectedFails ==
    [][\A o \in OpThreads :
          (\/ opc[o] = "idle" /\ opc'[o] # "idle" /\ ~connected_flag
           \/ opc[o] = "broker" /\ opc'[o] # "broker" /\ ~sock)
          => /\ opc'[o] = "returned"
             /\ w_exc'[o] = "NotConnectedError"
             /\ w_sig'[o] = 1
             /\ op'[o].mid = 0
             /\ inflight' = inflight
             /\ next_mid' = next_mid]_vars

\* C19 witness: an operation that passed the flag check has failed with
\* NotConnectedError at the transport call, without a message id, the
\* connection having been lost in between
C19_Witness ==
    \E o \in OpThreads :
        /\ opc[o] = "returned"
        /\ w_exc[o] = "NotConnectedError"
        /\ op[o].mid = 0
        /\ connected_flag
        /\ ~sock

\* C20: when the SUBACK of a connectDevice grants 128, the worker is signaled
\* once, with DeviceConnectNotAllowedError
C20_DeniedSubackFails ==
    [][\A l \in LoopThreads : \A o \in OpThreads :
          (op[o].kind = "connectDevice" /\ op[o].mid # 0 /\ loopAck(l, op[o].mid, TRUE))
          => (w_sig'[o] = 1 /\ w_exc'[o] = "DeviceConnectNotAllowedError")]_vars

-----------------------------------------------------------------------------
(* Hub life cycle: properties *)

\* C21: (claim) initHub sets hub_init to true only after a 200 answer, to the
\* create POST when hub.id is absent and to the HEAD probe when it is present;
\* every failure leaves hub_init as it was; HEAD 404 clears hub.id and raises
\* HubNotFound; every other non-200 status, a token failure, a timeout and a
\* malformed create answer raise HubInitialization
C21_InitHubContract ==
    [][inits' = inits + 1 =>
          /\ (hub_init' /\ ~hub_init) =>
                 /\ init_req'.status = 200
                 /\ init_req'.method = IF hub_id = "" THEN "POST" ELSE "HEAD"
          /\ hexc'["main"] # "none" => hub_init' = hub_init
          /\ (init_req'.method = "HEAD" /\ init_req'.status = 404) =>
                 (hub_id' = "" /\ hexc'["main"] = "HubNotFoundError")
          /\ (init_req'.status # 200 /\ ~(init_req'.method = "HEAD" /\ init_req'.status = 404)) =>
                 hexc'["main"] = "HubInitializationError"
          /\ (init_req'.status = 200 /\ hexc'["main"] # "none") =>
                 hexc'["main"] = "HubInitializationError"]_vars

\* the hub GET of s was answered 200 with a hash, and that hash is (same) or is
\* not the local devices_hash
GetShowed(s, same) ==
    /\ sync_ans'[s].req = "GET" /\ sync_ans'[s].hashed
    /\ (remote_hash' = RemoteHash(sync_hash[s])) <=> same

\* C22: syncHub issues the hub PUT if and only if the hub GET was answered 200
\* with a hash different from the hash of the supplied devices; when the hashes
\* match no PUT is issued and syncHub succeeds; a PUT answer of 400 yields
\* HubSyncDevice, 404 yields HubNotFound with the hub id cleared, any other
\* non-200 yields HubSync
C22_PutIffHashDiffers ==
    [][\A s \in SyncThreads :
          /\ (sync_put'[s] /\ ~sync_put[s]) <=>
                 (hpc[s] = "get_wait" /\ hpc'[s] # "get_wait" /\ GetShowed(s, FALSE))
          /\ (hpc[s] = "get_wait" /\ hpc'[s] # "get_wait" /\ GetShowed(s, TRUE)) =>
                 (hpc'[s] = "exit_set" /\ hexc'[s] = "none" /\ ~sync_put'[s])
          /\ (hpc[s] = "put_wait" /\ hpc'[s] # "put_wait") =>
                 /\ sync_ans'[s].status = 200 => hexc'[s] = "none"
                 /\ sync_ans'[s].status = 400 => hexc'[s] = "HubSyncDeviceError"
                 /\ sync_ans'[s].status = 404 => (hexc'[s] = "HubNotFoundError" /\ hub_id' = "")
                 /\ sync_ans'[s].status \notin {200, 400, 404} => hexc'[s] = "HubSyncError"]_vars

\* a syncHub has returned normally without a PUT, the GET having shown the
\* local hash, and another has ended with HubSyncDevice after its PUT
C22_Witness ==
    \E s, r \in SyncThreads :
        /\ hpc[s] = "done" /\ hexc[s] = "none" /\ ~sync_put[s]
        /\ sync_ans[s].req = "GET" /\ sync_ans[s].hashed
        /\ hpc[r] = "done" /\ sync_put[r] /\ hexc[r] = "HubSyncDeviceError"


\* s has its answer and no other syncHub has had one since s released the lock
LatestSync(s) ==
    /\ sync_ans[s].req # "none"
    /\ \/ hpc[s] \in {"exit_set", "exit_release"}
       \/ hpc[s] = "done" /\ \A r \in SyncThreads \ {s} : sync_ans[r].req = "none"

-----------------------------------------------------------------------------
(* Device registration: properties *)

\* C25: (claim) every failure of addDevice caused by token acquisition or by an
\* HTTP failure mode (timeout, socket error, undecodable JSON, missing key,
\* unexpected status), in the probe, in the create or in the update dispatched
\* on probe 200, surfaces as DeviceAdd and as no other error kind
C25_AddFailsWithDeviceAdd ==
    \A t \in DeviceThreads :
        (op_kind[t] = "add" /\ hpc[t] = "done") =>
            /\ hexc[t] \in {"none", "DeviceAddError"}
            /\ dev_ans[t].failed => hexc[t] = "DeviceAddError"

\* C26: (claim) addDevice issues the create POST only after its probe GET was
\* answered 404 and the update PUT only after the probe was answered 200;
\* whenever addDevice returns successfully the device's remote_id equals the
\* id the platform returned for it
C26_AddRecordsRemoteId ==
    [][\A t \in DeviceThreads :
          op_kind[t] = "add" =>
              /\ (hpc'[t] = "http_post" /\ hpc[t] # "http_post") =>
                     (hpc[t] = "http1" /\ dev_ans'[t].probe = 404)
              /\ (hpc'[t] = "http_put" /\ hpc[t] # "http_put") =>
                     (hpc[t] = "http1" /\ dev_ans'[t].probe = 200)
              /\ (hpc'[t] = "done" /\ hpc[t] # "done" /\ hexc'[t] = "none") =>
                     (dev_ans'[t].id # 0 /\ dev_remote' = dev_ans'[t].id)]_vars

\* C27: (claim) a device's remote_id is set at most once: once it holds a
\* non-empty value, no later sequence of addDevice, updateDevice or
\* property-setter calls changes it
C27_RemoteIdSetOnce ==
    [][dev_remote # 0 => dev_remote' = dev_remote]_vars

-----------------------------------------------------------------------------
(* Transport publish: properties *)

\* the paho client accepted the publish of operation thread o at qos 0
AcceptedQos0(o) == op[o].kind \in PublishKinds /\ op[o].qos = 0 /\ op[o].mid # 0

\* the paho client accepted the publish of operation thread o at qos 1 or 2
AcceptedQos1(o) == op[o].kind \in PublishKinds /\ op[o].qos > 0 /\ op[o].mid # 0

\* this step is __publishClbk for the message id of o, finding o's worker
AckedStep(o) ==
    /\ op[o].mid \in inflight
    /\ op[o].mid \notin inflight'
    /\ \E i \in 1..Len(events) : events[i] = [mid |-> op[o].mid, w |-> o]
    /\ events' = EventsDel(events, op[o].mid)

\* this step is __cleanEvents reaching o's worker
CleanedStep(o) ==
    \E l \in LoopThreads :
        /\ lpc[l] = "cleaning"
        /\ clean_it'[l].pos = clean_it[l].pos + 1
        /\ events[clean_it'[l].pos].w = o

\* C28: a publish the paho client accepted at qos 0 signals its worker in the
\* step in which publish returns and never stores it in __events; one
\* accepted at qos 1 or 2 stores the worker under the message id paho gave
\* it, under no other key, and its worker is signaled only by __publishClbk
\* for that id or by __cleanEvents, never by publish itself
C28_PublishSignal ==
    [][\A o \in OpThreads :
          /\ AcceptedQos0(o) =>
                /\ (opc'[o] = "returned" /\ opc[o] # "returned") => w_sig'[o] = w_sig[o] + 1
                /\ w_sig'[o] # w_sig[o] => (opc[o] = "direct" /\ opc'[o] = "returned")
                /\ \A i \in 1..Len(events') : events'[i].w # o
          /\ AcceptedQos1(o) =>
                /\ (opc'[o] = "returned" /\ opc[o] # "returned") =>
                       (\E i \in 1..Len(events') : events'[i] = [mid |-> op[o].mid, w |-> o])
                /\ \A i \in 1..Len(events') : events'[i].w = o => events'[i].mid = op[o].mid
                /\ w_sig'[o] # w_sig[o] => (opc[o] = "returned" /\ (AckedStep(o) \/ CleanedStep(o)))
      ]_vars

\* a qos 0 publish has returned with its worker signaled, and a qos 1
\* publish has been signaled by its ack
C28_Witness ==
    \E o, q \in OpThreads :
        /\ AcceptedQos0(o) /\ opc[o] = "returned" /\ w_sig[o] = 1
        /\ AcceptedQos1(q) /\ opc[q] = "returned" /\ q \in acked /\ w_sig[q] = 1

-----------------------------------------------------------------------------
(* Hub synchronisation lock and event: properties *)

\* the positions of __syncHub between acquire() returning and release()
SyncHoldingPcs == {"check"} \cup SyncRunningPcs \cup {"exit_set", "exit_release"}

\* C29: the hub sync event is clear only while a __syncHub call holds the hub
\* sync lock; at most one __syncHub call is between acquiring and releasing
\* the lock, and it is the holder; and every exit of __syncHub, normal or by
\* any error including HubNotInitializedError, leaves the event set and the
\* lock released
C29_SyncLockAndEvent ==
    [][/\ ~hub_sync_event' => (hub_sync_lock' \in SyncThreads /\ hpc'[hub_sync_lock'] \in SyncHoldingPcs)
       /\ \A s \in SyncThreads : hpc'[s] \in SyncHoldingPcs <=> hub_sync_lock' = s
       /\ \A s \in SyncThreads : (hpc'[s] = "done" /\ hpc[s] # "done") =>
               (hub_sync_lock = s /\ hub_sync_lock' = "free" /\ hub_sync_event')
      ]_vars

\* one __syncHub call has ended with HubNotInitializedError, and another has
\* cleared the event and ended with HubSyncError
C29_Witness ==
    /\ hub_sync_lock = "free"
    /\ hub_sync_event
    /\ \E s, r \in SyncThreads :
          /\ hpc[s] = "done" /\ hexc[s] = "HubNotInitializedError"
          /\ hpc[r] = "done" /\ hexc[r] = "HubSyncError" /\ sync_ans[r].req # "none"

-----------------------------------------------------------------------------
(* Connect lock: properties *)

\* the positions of a loop thread whose connect attempt has reached the
\* transport and whose completion hook has not run yet
AttemptPendingPcs == {"connect", "failed", "on_connect", "signal"}

\* C30: connect attempts are serialized by the connect lock: a connect
\* attempt reaches the transport only while its own __connect holds the lock,
\* the lock stays with it until its completion hook releases it, and in
\* between no other attempt, of connect() or of a reconnect loop, is past
\* acquire() or at the transport
C30_ConnectSerialized ==
    [][/\ \A l \in LoopThreads :
             (lpc[l] = "unused" /\ lpc'[l] = "connect") =>
                 /\ connect_lock = lowner'[l]
                 /\ \A m \in LoopThreads \ {l} : lpc[m] \notin AttemptPendingPcs
       /\ \A l \in LoopThreads : lpc'[l] \in AttemptPendingPcs => connect_lock' = lowner'[l]
       /\ \A x \in UserThreads \cup ReconnThreads :
             tpc'[x] \in {"check", "start"} =>
                 /\ connect_lock' = x
                 /\ \A l \in LoopThreads : lpc'[l] \notin AttemptPendingPcs
       /\ \A l \in LoopThreads :
             (lpc[l] \in AttemptPendingPcs /\ lpc'[l] \notin AttemptPendingPcs) => connect_lock' = "free"
      ]_vars

\* the attempt of one thread is at the transport while another thread waits
\* in acquire() for the lock
C30_Witness ==
    \E l \in LoopThreads, y \in UserThreads \cup ReconnThreads :
        /\ lpc[l] \in AttemptPendingPcs
        /\ y # lowner[l]
        /\ tpc[y] = "acquire"
        /\ connect_lock = lowner[l]

-----------------------------------------------------------------------------
(* Completion hook: properties *)

\* the error kinds of the client library a waiter may find in a worker
DomainErrors == {"DeviceConnectError", "DeviceConnectNotAllowedError", "DeviceDisconnectError",
                 "SendEventError", "SendResponseError", "NotConnectedError"}

\* on_done of __connectDevice re-raises an exception that none of its except
\* clauses names; the hooks of __disconnectDevice and __send catch Exception
OnDoneRaises(kind, exception) ==
    /\ kind = "connectDevice"
    /\ exception \notin {"none", "mqtt.SubscribeNotAllowedError", "mqtt.SubscribeError",
                         "mqtt.NotConnectedError"}

\* this step is the qos 0 branch of publish for o
DirectStep(o) == opc[o] = "direct" /\ opc'[o] = "returned"

\* C31: on every completion path (ack of a subscribe, unsubscribe or publish,
\* qos 0 publish, cleanup at disconnect) the hook has run when the worker is
\* signaled: the step signals the worker exactly once, the hook finds no
\* exception it would re-raise, the worker then holds no exception or one of
\* the domain errors, after the cleanup the domain error of its operation,
\* and no signaled worker ever holds an error of the transport
C31_HookBeforeSignal ==
    [][\A o \in OpThreads :
          /\ (AckedStep(o) \/ CleanedStep(o) \/ DirectStep(o)) =>
                /\ w_sig'[o] = w_sig[o] + 1
                /\ ~OnDoneRaises(op[o].kind, w_exc[o])
                /\ w_exc'[o] \in DomainErrors \cup {"none"}
          /\ CleanedStep(o) =>
                w_exc'[o] = CASE op[o].kind = "connectDevice" -> "NotConnectedError"
                              [] op[o].kind = "disconnectDevice" -> "DeviceDisconnectError"
                              [] op[o].kind = "emitEvent" -> "SendEventError"
                              [] OTHER -> "SendResponseError"
          /\ w_sig'[o] > 0 => w_exc'[o] \in DomainErrors \cup {"none"}
      ]_vars

\* the worker of a connectDevice was refused by its SUBACK and the worker of
\* a publish was failed by the cleanup
C31_Witness ==
    \E o, q \in OpThreads :
        /\ o \in acked /\ w_sig[o] = 1 /\ w_exc[o] = "DeviceConnectNotAllowedError"
        /\ q \in at_clean /\ w_sig[q] = 1 /\ w_exc[q] \in {"SendEventError", "SendResponseError"}

-----------------------------------------------------------------------------
(* syncHub before initHub: properties *)

\* C32: a __syncHub call that finds the hub not initialized ends there with
\* HubNotInitializedError, with the hub sync lock released and the hub sync
\* event set; the step changes neither the worker list nor the hub id nor
\* what the platform holds, and the call has issued no HTTP request
C32_SyncNotInitialized ==
    [][\A s \in SyncThreads :
          (hpc[s] = "check" /\ hpc'[s] # "check" /\ ~hub_init) =>
              /\ hpc'[s] = "done"
              /\ hexc'[s] = "HubNotInitializedError"
              /\ hub_sync_lock = s /\ hub_sync_lock' = "free"
              /\ hub_sync_event /\ hub_sync_event'
              /\ workers' = workers /\ workers = workers
              /\ join_idx' = join_idx
              /\ hub_id' = hub_id /\ hub_init' = hub_init
              /\ remote_hash' = remote_hash
              /\ sync_ans'[s] = NoSyncAns /\ at_get'[s] = "none" /\ ~sync_put'[s]
              /\ sent_cleared' = sent_cleared
      ]_vars

\* a __syncHub call has ended with HubNotInitializedError while a device
\* worker is registered in the worker list
C32_Witness ==
    \E s \in SyncThreads :
        /\ hpc[s] = "done"
        /\ hexc[s] = "HubNotInitializedError"
        /\ workers # <<>>
        /\ hub_sync_lock = "free"

-----------------------------------------------------------------------------
(* Reconnect loop: the attempt counter and the sleep before an attempt *)

-----------------------------------------------------------------------------
(* Device pool: properties *)

-----------------------------------------------------------------------------
(* Reconnect loops: properties *)

\* the __reconnect threads that have been started and have not ended
ActiveLoops == {k \in ReconnThreads : tpc[k] \notin {"unused", "ended", "dead"}}

\* C35: at most one reconnect loop is active at any time
C35_OneReconnectLoop == Cardinality(ActiveLoops) <= 1

-----------------------------------------------------------------------------
(* Connect lock: release *)

\* the connect attempt of thread x is in progress: __connect is between
\* acquire() and the start of the loop thread, or the loop thread has not
\* completed the connect worker yet
AttemptInProgress(x) ==
    \/ tpc[x] \in {"check", "start"}
    \/ \E l \in LoopThreads : lowner[l] = x /\ lpc[l] \in {"connect", "failed", "on_connect", "signal"}

\* C36: the connect lock is held only while the attempt of its holder is in
\* progress: it is released after every attempt, whether it succeeded,
\* failed at the broker or ended with an exception before the transport
C36_ConnectLockReleased ==
    \A x \in UserThreads \cup ReconnThreads : connect_lock = x => AttemptInProgress(x)

-----------------------------------------------------------------------------
(* Hub synchronisation against device calls: progress *)

C38_InitImpliesHubId == hub_init => hub_id # ""


\* C39: (claim) a disconnect() that raises NotConnectedError changes nothing of
\* the session state, and a connect() that fails with "already connected"
\* leaves the reconnect flag as the call found it
C39_FailedCallKeepsState ==
    [][/\ (disconnect /\ comm /\ ~sock) =>
              UNCHANGED <<connected_flag, reconnect_flag, connect_lock, comm, usr_disconn, sock>>
       /\ \A u \in UserThreads :
              (tpc[u] = "check" /\ tpc'[u] # "check" /\ connected_flag /\ ~disc_since) =>
                  /\ reconnect_flag' = ucall[u].flag0
                  /\ UNCHANGED <<connected_flag, comm, usr_disconn, sock>>
                  /\ connect_lock' = "free"]_vars

\* C40: (claim) the transport's user-disconnect flag is false whenever the
\* network loop of a new session starts
C40_FlagClearAtLoopStart ==
    [][\A l \in LoopThreads : (lpc[l] # "connect" /\ lpc'[l] = "connect") => ~usr_disconn']_vars

=============================================================================
